---- MODULE Spec2Model ----
(***************************************************************************)
(* The runtime that src/src/codegen.ts (generateServerJs) emits as         *)
(* server.js: the tables it declares, the vm sandbox it builds around each *)
(* code fragment, and dispatchTool, serving concurrent call-tool requests  *)
(* on one event loop.                                                      *)
(*                                                                         *)
(* A code fragment (handler_code, orchestration_code, a transform) is data *)
(* carried by the crawled stages.  What a fragment does when it runs is    *)
(* drawn from a small set of fragment behaviours by the action that runs   *)
(* it; what the behaviour can reach is decided by the scope the emitted    *)
(* code evaluates it in.                                                   *)
(*                                                                         *)
(* Before it, the export command of src/src/export.ts: crawlPipeline walks *)
(* the _mcp_metadata chain of the live stages and generateProject writes   *)
(* the project the server is started from.                                 *)
(*                                                                         *)
(* Around it, the rest of the command line: the deploy command (runDeploy  *)
(* and the Fly provider) and the wrapper that loads the config files,      *)
(* builds the argv and spawns boot, mod or ui (loadConfig, buildArgv,      *)
(* spawnTool); and the input of export and deploy: their argument parsers *)
(* (parseExportArgs, parseDeployArgs) and readUrlFromStdin.                *)
(***************************************************************************)
EXTENDS Integers, Sequences, FiniteSets, TLC

VARIABLES stages,   \* the crawled stage list generateServerJs was run on
          req,      \* per call-tool request: position and data of dispatchTool
          hostMath, \* state of the host objects (JSON, Math, ...) that every
                    \* sandbox receives by reference
          net,      \* the live stages: what each address answers _mcp_metadata
          crawl,    \* runExport: its position, currentUrl and collected stages
          disk,     \* the writes generateProject has made, in order
          http,     \* the HTTP request the emitted server is handling
          deploy,   \* a run of the deploy command (runDeploy)
          wrapper,  \* a run of the wrapper around boot, mod or ui (index.ts)
          parser,   \* an argument list and what the two parsers make of it
          reader    \* readUrlFromStdin: the stream, the text read, the outcome

serverVars == <<stages, req, hostMath>>
exportVars == <<net, crawl, disk>>
cliVars == <<deploy, wrapper>>
inputVars == <<parser, reader>>
vars == <<stages, req, hostMath, net, crawl, disk, http, deploy, wrapper, parser, reader>>

(***************************************************************************)
(* Bounds of the model.                                                    *)
(***************************************************************************)
MaxReqs == 2      \* call-tool requests that may be in flight together
MaxRouted == 1    \* length of mod.pass_through_tools
MaxHostLen == 3   \* characters in a hostname
MaxSubCalls == 2  \* callTool invocations of one orchestration run
MaxAddrs == 3     \* addresses of live stages
MaxCrawl == 4     \* fetches of one crawl
MaxTools == 2     \* entries of a tool list of a stage given to generateProject
MaxRuns == 2      \* runs of generateProject on one stage list
MaxArgs == 2      \* arguments after the subcommand
MaxSignals == 2   \* signals delivered to the wrapper

Reqs == 1..MaxReqs

(***************************************************************************)
(* Program constant: the vm timeout of a sandboxed script.                 *)
(***************************************************************************)
SANDBOX_TIMEOUT_MS == 30000

NULL == "null"

(***************************************************************************)
(* The crawled stages (codegen.ts:8-55).  boot.tools is held as the map    *)
(* name -> tool that bootHandlers is filled from, mod.pass_through_tools   *)
(* as a list, mod.synthetic_tools as the set of names of the               *)
(* orchestrations map.                                                     *)
(***************************************************************************)
BootNames == {"lookup", "fetcher"}
ExposedNames == {"search", "lookup"}
UpstreamNames == {"lookup", "ghost"}
SyntheticNames == {"search"}
CallNames == {"lookup", "fetcher", "search", "ghost"}

BootTool == [handler_code : {"", "code"}, needs_network : BOOLEAN]

PassThroughTool ==
  [exposed_name : ExposedNames, upstream_name : UpstreamNames,
   input_transform_code : {NULL, "code"}, output_transform_code : {NULL, "code"}]

SeqUpTo(S, n) == UNION {[1..k -> S] : k \in 0..n}

\* hostnames and allowlisted domains are strings over a small alphabet
HostChars == {"a", "b", "."}
Hosts == UNION {[1..k -> HostChars] : k \in 1..MaxHostLen}
WhitelistChoices == {{<<"a">>}}

\* lookup is a pure tool whose code may be empty, fetcher a tool with code
BootStage ==
  {b \in [tools : UNION {[S -> BootTool] : S \in SUBSET BootNames},
          whitelist_domains : WhitelistChoices] :
     /\ "lookup" \in DOMAIN b.tools
     /\ ~b.tools["lookup"].needs_network
     /\ "fetcher" \in DOMAIN b.tools => b.tools["fetcher"].handler_code = "code"}

ModStage ==
  [hidden_tools : {{}}, pass_through_tools : SeqUpTo(PassThroughTool, MaxRouted),
   synthetic_tools : SUBSET SyntheticNames]

\* the stages found by stages.find(s => s.stage === ...); a stage that is not
\* in `has` was not found (undefined) and its field is a placeholder
NoBoot == [tools |-> <<>>, whitelist_domains |-> {}]
NoMod == [hidden_tools |-> {}, pass_through_tools |-> <<>>, synthetic_tools |-> {}]

StageLists ==
  {[has |-> H,
    boot |-> IF "boot" \in H THEN b ELSE NoBoot,
    mod |-> IF "mod" \in H THEN m ELSE NoMod] :
      H \in SUBSET {"boot", "mod"}, b \in BootStage, m \in ModStage}

HasBoot(st) == "boot" \in st.has
HasMod(st) == "mod" \in st.has

(***************************************************************************)
(* Stage metadata as crawled (export.ts:8-13, codegen.ts:8-55): what the   *)
(* text of an _mcp_metadata reply parses to.  upstream_url 0 is null.  A   *)
(* field named in `lacks` is absent from the document, and reading it      *)
(* gives undefined.  A parsed value that is no stage object (42, {}) has   *)
(* the stage "undefined" and no upstream_url.                              *)
(***************************************************************************)
Addrs == 1..MaxAddrs

BootToolDoc(n, d, code, nw) ==
  [name |-> n, description |-> d, input_schema |-> "schema:" \o n,
   handler_code |-> code, needs_network |-> nw]

PassThroughToolDoc(e, u, d, inC, outC) ==
  [exposed_name |-> e, upstream_name |-> u, exposed_schema |-> "schema:" \o e,
   description |-> d, input_transform_code |-> inC, output_transform_code |-> outC]

SyntheticToolDoc(n, d, code) ==
  [name |-> n, description |-> d, input_schema |-> "schema:" \o n,
   orchestration_code |-> code]

UIResource(t, uri, html) ==
  [tool_name |-> t, resource_uri |-> uri, html |-> html]

StageMetadata(kind, up) ==
  [reply |-> "json", stage |-> kind, version |-> "v:" \o kind, upstream_url |-> up,
   lacks |-> {}, tools |-> <<>>, whitelist_domains |-> <<>>, hidden_tools |-> <<>>,
   pass_through_tools |-> <<>>, synthetic_tools |-> <<>>, ui_resources |-> <<>>]

BootDoc(up, tools, wl) ==
  [StageMetadata("boot", up) EXCEPT !.tools = tools, !.whitelist_domains = wl]

ModDoc(up, hidden, pt, syn) ==
  [StageMetadata("mod", up) EXCEPT !.hidden_tools = hidden,
     !.pass_through_tools = pt, !.synthetic_tools = syn]

UIDoc(up, ui) == [StageMetadata("ui", up) EXCEPT !.ui_resources = ui]

Lacking(doc, fields) == [doc EXCEPT !.lacks = fields]

\* a reply that gives no document, and an address not asked yet
NoDocument(kind) == [StageMetadata("undefined", 0) EXCEPT !.reply = kind]
Unknown == NoDocument("unknown")

\* the emitted server with no HTTP request in hand; MCP_API_KEY is the
\* environment the process was started in ("" when the variable is not set)
HttpIdle ==
  [pc |-> "idle", MCP_API_KEY |-> "", resources |-> FALSE, method |-> "", url |-> "",
   authorization |-> "", rpc |-> "", status |-> 0, served |-> ""]

\* no deploy command is running
DeployIdle ==
  [pc |-> "idle",
   args |-> [target |-> "fly", name |-> NULL, region |-> NULL, env |-> <<>>,
             apiKey |-> NULL, destroy |-> FALSE, help |-> FALSE, projectDir |-> NULL],
   stdin |-> [isTTY |-> TRUE, data |-> <<>>, ended |-> FALSE], upstream |-> "none",
   files |-> {}, projectDir |-> NULL, name |-> NULL, apiKey |-> NULL,
   log |-> <<>>, secrets |-> <<>>, error |-> NULL, stdout |-> <<>>]

\* no wrapper is running
WrapperIdle ==
  [pc |-> "idle",
   userFile |-> [kind |-> "missing", object |-> <<>>],
   projectFile |-> [kind |-> "missing", object |-> <<>>],
   env |-> [API_KEY |-> NULL], rawArgv |-> <<>>, config |-> <<>>, argv |-> <<>>,
   child |-> [killed |-> FALSE, received |-> <<>>,
              status |-> [code |-> NULL, signal |-> NULL]],
   delivered |-> <<>>, error |-> NULL, exit |-> [code |-> NULL, signal |-> NULL]]

\* no argument list is being parsed
ParserIdle == [pc |-> "idle", argv |-> <<>>, result |-> NULL]

\* readUrlFromStdin has not been called
ReaderIdle ==
  [pc |-> "idle", isTTY |-> TRUE, input |-> <<>>, sent |-> 0, data |-> <<>>,
   url |-> <<>>, error |-> NULL]

\* runExport before it has started: no crawl, nothing written
CrawlIdle ==
  [pc |-> "idle", currentUrl |-> 0, stages |-> <<>>, fetched |-> <<>>,
   result |-> <<>>, error |-> NULL, run |-> 1,
   open |-> {}, got |-> [t |-> "none"]]

(***************************************************************************)
(* What generateServerJs derives from the stages and emits as tables.      *)
(***************************************************************************)
Truthy(code) == code # NULL /\ code # ""

Range(seq) == {seq[i] : i \in DOMAIN seq}

hasNetwork(st) ==
  IF ~HasBoot(st) THEN FALSE
  ELSE \E n \in DOMAIN st.boot.tools : st.boot.tools[n].needs_network

WHITELIST_DOMAINS(st) == IF ~HasBoot(st) THEN {} ELSE st.boot.whitelist_domains

\* const bootHandlers is declared only when a boot stage exists
bootHandlersDeclared(st) == HasBoot(st)

bootHandlers(st) == [n \in DOMAIN st.boot.tools |-> st.boot.tools[n].handler_code]

HasTransform(t) == Truthy(t.input_transform_code) \/ Truthy(t.output_transform_code)

\* const transforms is declared only when some routed tool has a transform
transformsDeclared(st) ==
  /\ HasMod(st)
  /\ \E i \in DOMAIN st.mod.pass_through_tools : HasTransform(st.mod.pass_through_tools[i])

\* const orchestrations is declared only when there is a synthetic tool
orchestrationsDeclared(st) == HasMod(st) /\ st.mod.synthetic_tools # {}

orchestrations(st) == st.mod.synthetic_tools

\* Map.set in list order: the last entry of a name wins
LastIndex(I) == IF I = {} THEN 0 ELSE CHOOSE i \in I : \A j \in I : j <= i

toolRouting(st, name) ==
  LET pt == st.mod.pass_through_tools
      i == LastIndex({j \in DOMAIN pt : pt[j].exposed_name = name})
  IN  IF i = 0 THEN NULL ELSE pt[i].upstream_name

\* transforms.get(name): the descriptor read from transforms/<name>.json;
\* both codes NULL stands for undefined (no descriptor of that name)
transformsGet(st, name) ==
  LET pt == st.mod.pass_through_tools
      i == LastIndex({j \in DOMAIN pt : pt[j].exposed_name = name /\ HasTransform(pt[j])})
  IN  IF i = 0 THEN [input_transform_code |-> NULL, output_transform_code |-> NULL]
      ELSE [input_transform_code |-> pt[i].input_transform_code,
            output_transform_code |-> pt[i].output_transform_code]

(***************************************************************************)
(* Scopes.  runHandler and the synthetic branch build a vm context from an *)
(* explicit object; the routed branch compiles a transform with            *)
(* new Function, whose body is evaluated in the global scope of the        *)
(* server process.                                                         *)
(***************************************************************************)
UtilityBindings ==
  {"JSON", "Math", "String", "Number", "Boolean", "Array", "Object", "Map",
   "Set", "Date", "RegExp", "parseInt", "parseFloat", "isNaN", "isFinite",
   "structuredClone", "console", "Promise"}

AmbientGlobals == UtilityBindings \cup {"process", "globalThis", "fetch", "setTimeout"}

HandlerScope(st) ==
  {"args"} \cup UtilityBindings \cup (IF hasNetwork(st) THEN {"fetch"} ELSE {})

OrchestrationScope(st) ==
  {"args", "callTool"} \cup UtilityBindings
     \cup (IF hasNetwork(st) THEN {"fetch"} ELSE {})

TransformScope == {"args", "result"} \cup AmbientGlobals

(***************************************************************************)
(* whitelistedFetch (codegen.ts:218-232).  A URL string either parses to a *)
(* hostname or does not parse.  The url argument is any value: isAllowed   *)
(* converts it to a string for new URL(url), fetch converts it again, and  *)
(* an object may answer the two conversions differently.                   *)
(***************************************************************************)
UrlStrings == [scheme : {"http", ""}, host : Hosts]

\* new URL(url).hostname; the empty hostname stands for a URL that does not parse
ParseURL(url) == IF url.scheme = "" THEN <<>> ELSE url.host

EndsWith(s, suffix) ==
  /\ Len(suffix) <= Len(s)
  /\ SubSeq(s, Len(s) - Len(suffix) + 1, Len(s)) = suffix

isAllowed(st, url) ==
  LET hostname == ParseURL(url)
  IN  IF hostname = <<>> THEN FALSE
      ELSE \E d \in WHITELIST_DOMAINS(st) :
             hostname = d \/ EndsWith(hostname, <<".">> \o d)

ObjectHosts == {<<"a">>, <<"b">>}
FetchArgs ==
  {[first |-> u, second |-> u] : u \in UrlStrings}
    \cup {[first |-> [scheme |-> "http", host |-> h],
           second |-> [scheme |-> "http", host |-> g]] : h, g \in ObjectHosts}

NoUrl == [first |-> [scheme |-> "", host |-> <<"a">>],
          second |-> [scheme |-> "", host |-> <<"a">>]]

\* the outcome of whitelistedFetch(url): refused, or network I/O to a host
whitelistedFetch(st, url) ==
  IF ~isAllowed(st, url.first) THEN [t |-> "err", e |-> "denied"]
  ELSE IF ParseURL(url.second) = <<>> THEN [t |-> "err", e |-> "fragment"]
  ELSE [t |-> "io", host |-> ParseURL(url.second)]

(***************************************************************************)
(* Fragment behaviours.                                                    *)
(***************************************************************************)
VmKinds == {"ret", "throw", "spin", "hang", "fetch", "leak", "peek", "global"}
OrchestrationKinds == VmKinds \cup {"call"}
TransformKinds == {"ret", "throw", "spin", "global"}

\* script.runInContext(context, { timeout }) on "(async function(args) {code})(args)":
\* what running a fragment of behaviour k in a context with bindings `scope` gives
VmRun(st, k, url, scope, val, tag, math) ==
  CASE k = "ret"    -> [t |-> "ok", v |-> Append(val, tag)]
    [] k = "throw"  -> [t |-> "err", e |-> "fragment"]
    [] k = "spin"   -> [t |-> "spin"]
    [] k = "hang"   -> [t |-> "hang"]
    [] k = "global" -> IF "process" \in scope
                         THEN [t |-> "ok", v |-> Append(val, "env")]
                         ELSE [t |-> "err", e |-> "ReferenceError"]
    [] k = "fetch"  -> IF "fetch" \notin scope
                         THEN [t |-> "err", e |-> "ReferenceError"]
                         ELSE whitelistedFetch(st, url)
    [] k = "leak"   -> [t |-> "ok", v |-> Append(val, tag)]
    [] k = "peek"   -> [t |-> "ok", v |-> Append(val, math)]

\* new Function(param, code)(value) inside try/catch: no context, no timeout
FunctionRun(k, scope, val, tag) ==
  CASE k = "ret"    -> [t |-> "ok", v |-> Append(val, tag)]
    [] k = "throw"  -> [t |-> "err", e |-> "fragment"]
    [] k = "spin"   -> [t |-> "spin"]
    [] k = "global" -> IF "process" \in scope
                         THEN [t |-> "ok", v |-> Append(val, "env")]
                         ELSE [t |-> "err", e |-> "ReferenceError"]

\* faulty variant of DispatchStep: with a mod stage, a name that nothing
\* routes still reaches the boot tool of that name
C19_DirectStepKept(st, name) ==
  IF HasMod(st)
    THEN IF ~orchestrationsDeclared(st) THEN "ReferenceError"
         ELSE IF name \in orchestrations(st) THEN "synthetic"
         ELSE IF toolRouting(st, name) # NULL
           THEN IF ~transformsDeclared(st) THEN "ReferenceError" ELSE "routed"
         ELSE IF HasBoot(st) /\ name \in DOMAIN st.boot.tools THEN "direct"
         ELSE "unknown"
    ELSE IF HasBoot(st) THEN "direct" ELSE "unknown"

(***************************************************************************)
(* dispatchTool (codegen.ts:303-367): the step that answers a name.        *)
(***************************************************************************)
DispatchStep(st, name) ==
  IF HasMod(st)
    THEN IF ~orchestrationsDeclared(st) THEN "ReferenceError"
         ELSE IF name \in orchestrations(st) THEN "synthetic"
         ELSE IF toolRouting(st, name) # NULL
           THEN IF ~transformsDeclared(st) THEN "ReferenceError" ELSE "routed"
         ELSE "unknown"
    ELSE IF HasBoot(st) THEN "direct" ELSE "unknown"

(***************************************************************************)
(* Requests.  pc is the position of dispatchTool for the request, step the *)
(* branch it took, target the boot tool callBootTool is asked for, val the *)
(* value that flows through the fragments (each fragment that returns      *)
(* appends its mark), outcome and err the state of the promise that        *)
(* dispatchTool returned, host the peer of an open connection, logged the  *)
(* console.error lines of the transform catch blocks.                      *)
(***************************************************************************)
Idle ==
  [pc |-> "new", name |-> NULL, step |-> NULL, frame |-> NULL, target |-> NULL,
   val |-> <<>>, outcome |-> "pending", err |-> NULL, isError |-> FALSE,
   logged |-> <<>>,
   host |-> <<>>, subcalls |-> 0]

Fulfil(q, v) == [q EXCEPT !.pc = "done", !.outcome = "fulfilled", !.val = v]
Reject(q, e) == [q EXCEPT !.pc = "done", !.outcome = "rejected", !.err = e]

UnknownToolPayload(q) ==
  [q EXCEPT !.pc = "done", !.outcome = "fulfilled", !.isError = TRUE,
            !.val = <<"Unknown tool">>]

OutputTransformOf(st, name) ==
  LET transform == transformsGet(st, name)
  IN  Truthy(transform.output_transform_code)

InputTransformOf(st, name) ==
  LET transform == transformsGet(st, name)
  IN  Truthy(transform.input_transform_code)

\* where control goes when the fragment of q's current frame has settled with res
Settle(st, q, res) ==
  IF q.frame = "orch"
    THEN IF res.t = "ok" THEN Fulfil(q, res.v) ELSE Reject(q, res.e)
  ELSE IF q.step = "synthetic"
    THEN IF res.t = "ok"
           THEN [q EXCEPT !.pc = "resume", !.frame = "orch", !.val = res.v]
           ELSE [q EXCEPT !.pc = "resume", !.frame = "orch", !.err = res.e]
  ELSE IF q.step = "routed"
    THEN IF res.t # "ok" THEN Reject(q, res.e)
         ELSE IF OutputTransformOf(st, q.name)
           THEN [q EXCEPT !.pc = "outT", !.frame = NULL, !.val = res.v]
           ELSE Fulfil(q, res.v)
  ELSE IF res.t = "ok" THEN Fulfil(q, res.v) ELSE Reject(q, res.e)

\* a vm fragment that did not settle at once
Suspend(st, q, res) ==
  CASE res.t = "spin" -> [q EXCEPT !.pc = "spinning"]
    [] res.t = "hang" -> [q EXCEPT !.pc = "hung"]
    [] res.t = "io"   -> [q EXCEPT !.pc = "fetching", !.host = res.host]
    [] OTHER          -> Settle(st, q, res)

\* the bindings the fragment that q is about to run is evaluated with
FragmentScope(st, q) ==
  CASE q.pc = "handler" -> HandlerScope(st)
    [] q.pc = "orch"    -> OrchestrationScope(st)
    [] OTHER            -> TransformScope

\* the timeout option its evaluation is given; 0 when it is given none
FragmentTimeout(q) ==
  IF q.pc \in {"handler", "orch"} THEN SANDBOX_TIMEOUT_MS ELSE 0

\* One thread runs every request.  A request that is not waiting for the
\* network (or for a promise that never settles) is inside a synchronous
\* segment or a chain of microtasks, and no other request moves until it
\* yields or is answered.
WaitingPcs == {"new", "fetching", "hung"}
Busy(r) == \E s \in Reqs \ {r} : req[s].pc \notin WaitingPcs

\* Overlapping requests are explored on chains without a mod stage; a chain
\* with a mod stage is explored one request at a time.
Admits(st, r) == r = 1 \/ ~HasMod(st)

HandlerTag(n) ==
  CASE n = "lookup" -> "h:lookup" [] n = "fetcher" -> "h:fetcher" [] OTHER -> "h:?"

MathTag(math) == IF math = "dirty" THEN "saw:dirty" ELSE "saw:clean"

Init ==
  /\ stages \in StageLists
  /\ req = [r \in Reqs |-> Idle]
  /\ hostMath = "clean"
  /\ net = [a \in Addrs |-> Unknown]
  /\ crawl = CrawlIdle
  /\ disk = <<>>
  /\ http = HttpIdle
  /\ deploy = DeployIdle
  /\ wrapper = WrapperIdle
  /\ parser = ParserIdle
  /\ reader = ReaderIdle

(***************************************************************************)
(* CallToolRequestSchema handler (codegen.ts:415-418) and the synchronous  *)
(* head of dispatchTool: the branch taken for the name.                    *)
(***************************************************************************)
CallToolRequest(r, n) ==
  /\ req[r].pc = "new"
  /\ Admits(stages, r)
  /\ ~Busy(r)
  /\ LET step == DispatchStep(stages, n)
         q == [req[r] EXCEPT !.name = n]
     IN  req' = [req EXCEPT ![r] =
           CASE step = "ReferenceError" -> Reject(q, "ReferenceError")
             [] step = "synthetic" ->
                  [q EXCEPT !.step = step, !.pc = "orch", !.frame = "orch"]
             [] step = "routed" ->
                  IF InputTransformOf(stages, n)
                    THEN [q EXCEPT !.step = step, !.pc = "inT",
                                   !.target = toolRouting(stages, n)]
                    ELSE [q EXCEPT !.step = step, !.pc = "boot", !.frame = "handler",
                                   !.target = toolRouting(stages, n)]
             [] step = "direct" ->
                  [q EXCEPT !.step = step, !.pc = "boot", !.frame = "handler",
                            !.target = n]
             [] OTHER -> UnknownToolPayload([q EXCEPT !.step = "unknown"])]
  /\ UNCHANGED <<stages, hostMath, exportVars, http, cliVars, inputVars>>

(***************************************************************************)
(* Routed branch, input transform (codegen.ts:331-340).                    *)
(***************************************************************************)
InputTransform(r, k) ==
  /\ req[r].pc = "inT"
  /\ ~Busy(r)
  /\ LET q == req[r]
         res == FunctionRun(k, FragmentScope(stages, q), q.val, "in")
     IN  req' = [req EXCEPT ![r] =
           CASE res.t = "spin" -> [q EXCEPT !.pc = "stuck"]
             [] res.t = "ok"   -> [q EXCEPT !.pc = "boot", !.frame = "handler",
                                            !.val = res.v]
             [] OTHER          -> [q EXCEPT !.pc = "boot", !.frame = "handler",
                                            !.logged = Append(@, "Input transform error")]]
  /\ UNCHANGED <<stages, hostMath, exportVars, http, cliVars, inputVars>>

\* faulty variant of CallBootTool: a name without handler is run all the same
C18_MissingToolRunsAnyway(r) ==
  /\ req[r].pc = "boot"
  /\ ~Busy(r)
  /\ req' = [req EXCEPT ![r].pc = "handler"]
  /\ UNCHANGED <<stages, hostMath, exportVars, http, cliVars, inputVars>>

(***************************************************************************)
(* callBootTool (codegen.ts:264-268).                                      *)
(***************************************************************************)
CallBootTool(r) ==
  /\ req[r].pc = "boot"
  /\ ~Busy(r)
  /\ LET q == req[r]
     IN  req' = [req EXCEPT ![r] =
           IF ~bootHandlersDeclared(stages)
             THEN Settle(stages, q, [t |-> "err", e |-> "ReferenceError"])
           ELSE IF \/ q.target \notin DOMAIN bootHandlers(stages)
                   \/ ~Truthy(bootHandlers(stages)[q.target])
             THEN Settle(stages, q, [t |-> "err", e |-> "Unknown boot tool"])
           ELSE [q EXCEPT !.pc = "handler"]]
  /\ UNCHANGED <<stages, hostMath, exportVars, http, cliVars, inputVars>>

(***************************************************************************)
(* runHandler (codegen.ts:239-252): the handler fragment in its context.   *)
(***************************************************************************)
RunHandler(r, k, url) ==
  /\ req[r].pc = "handler"
  /\ ~Busy(r)
  /\ LET q == req[r]
         res == VmRun(stages, k, url, FragmentScope(stages, q), q.val,
                      HandlerTag(q.target), MathTag(hostMath))
     IN  req' = [req EXCEPT ![r] = Suspend(stages, q, res)]
  /\ hostMath' = IF k = "leak" THEN "dirty" ELSE hostMath
  /\ UNCHANGED <<stages, exportVars, http, cliVars, inputVars>>

(***************************************************************************)
(* Synthetic branch (codegen.ts:308-322): the orchestration fragment, with *)
(* callTool bound to callBootTool.                                         *)
(***************************************************************************)
RunOrchestration(r, k, url, n) ==
  /\ req[r].pc = "orch"
  /\ ~Busy(r)
  /\ LET q == req[r]
     IN  req' = [req EXCEPT ![r] =
           IF k = "call"
             THEN [q EXCEPT !.pc = "boot", !.frame = "handler", !.target = n,
                            !.subcalls = 1]
             ELSE Suspend(stages, q,
                    VmRun(stages, k, url, FragmentScope(stages, q), q.val,
                          "orch", MathTag(hostMath)))]
  /\ hostMath' = IF k = "leak" THEN "dirty" ELSE hostMath
  /\ UNCHANGED <<stages, exportVars, http, cliVars, inputVars>>

\* the awaited callTool has settled: the orchestration goes on
OrchestrationResume(r, again, n) ==
  /\ req[r].pc = "resume"
  /\ ~Busy(r)
  /\ LET q == req[r]
     IN  req' = [req EXCEPT ![r] =
           IF q.err # NULL THEN Reject(q, q.err)
           ELSE IF again /\ q.subcalls < MaxSubCalls
             THEN [q EXCEPT !.pc = "boot", !.frame = "handler", !.target = n,
                            !.subcalls = q.subcalls + 1]
           ELSE Fulfil(q, Append(q.val, "orch"))]
  /\ UNCHANGED <<stages, hostMath, exportVars, http, cliVars, inputVars>>

\* the reply of an opened connection arrives and the fragment returns
FetchSettle(r) ==
  /\ req[r].pc = "fetching"
  /\ ~Busy(r)
  /\ LET q == req[r]
     IN  req' = [req EXCEPT ![r] =
           Settle(stages, [q EXCEPT !.host = <<>>],
                  [t |-> "ok", v |-> Append(q.val, "net")])]
  /\ UNCHANGED <<stages, hostMath, exportVars, http, cliVars, inputVars>>

\* the vm timeout interrupts a synchronous loop after SANDBOX_TIMEOUT_MS
SandboxTimeout(r) ==
  /\ req[r].pc = "spinning"
  /\ ~Busy(r)
  /\ req' = [req EXCEPT ![r] = Settle(stages, req[r], [t |-> "err", e |-> "timeout"])]
  /\ UNCHANGED <<stages, hostMath, exportVars, http, cliVars, inputVars>>

(***************************************************************************)
(* Routed branch, output transform (codegen.ts:345-355).                   *)
(***************************************************************************)
OutputTransform(r, k) ==
  /\ req[r].pc = "outT"
  /\ ~Busy(r)
  /\ LET q == req[r]
         res == FunctionRun(k, FragmentScope(stages, q), q.val, "out")
     IN  req' = [req EXCEPT ![r] =
           CASE res.t = "spin" -> [q EXCEPT !.pc = "stuck"]
             [] res.t = "ok"   -> Fulfil(q, res.v)
             [] OTHER          -> [Fulfil(q, q.val) EXCEPT
                                     !.logged = Append(@, "Output transform error")]]
  /\ UNCHANGED <<stages, hostMath, exportVars, http, cliVars, inputVars>>

\* the settled promise of dispatchTool is handed back and the request ends
Respond(r) ==
  /\ req[r].pc = "done"
  /\ ~Busy(r)
  /\ req' = [req EXCEPT ![r] = Idle]
  /\ UNCHANGED <<stages, hostMath, exportVars, http, cliVars, inputVars>>

Next ==
  \/ \E r \in Reqs, n \in CallNames : CallToolRequest(r, n)
  \/ \E r \in Reqs, k \in TransformKinds : InputTransform(r, k)
  \/ \E r \in Reqs : CallBootTool(r)
  \/ \E r \in Reqs, k \in VmKinds \ {"fetch"} : RunHandler(r, k, NoUrl)
  \/ \E r \in Reqs, url \in FetchArgs : RunHandler(r, "fetch", url)
  \/ \E r \in Reqs, k \in VmKinds \ {"fetch"} : RunOrchestration(r, k, NoUrl, NULL)
  \/ \E r \in Reqs, url \in FetchArgs : RunOrchestration(r, "fetch", url, NULL)
  \/ \E r \in Reqs, n \in CallNames : RunOrchestration(r, "call", NoUrl, n)
  \/ \E r \in Reqs : OrchestrationResume(r, FALSE, NULL)
  \/ \E r \in Reqs, n \in CallNames : OrchestrationResume(r, TRUE, n)
  \/ \E r \in Reqs : FetchSettle(r)
  \/ \E r \in Reqs : SandboxTimeout(r)
  \/ \E r \in Reqs, k \in TransformKinds : OutputTransform(r, k)
  \/ \E r \in Reqs : Respond(r)

Spec == Init /\ [][Next]_vars

\* Every step but the arrival of a request is taken once it can be: the
\* event loop runs a ready callback, a timer fires, a reply arrives.
Serve ==
  \/ \E r \in Reqs, k \in TransformKinds : InputTransform(r, k)
  \/ \E r \in Reqs : CallBootTool(r)
  \/ \E r \in Reqs, k \in VmKinds \ {"fetch"} : RunHandler(r, k, NoUrl)
  \/ \E r \in Reqs, k \in VmKinds \ {"fetch"} : RunOrchestration(r, k, NoUrl, NULL)
  \/ \E r \in Reqs : OrchestrationResume(r, FALSE, NULL)
  \/ \E r \in Reqs : FetchSettle(r)
  \/ \E r \in Reqs : SandboxTimeout(r)
  \/ \E r \in Reqs, k \in TransformKinds : OutputTransform(r, k)
  \/ \E r \in Reqs : Respond(r)

FairSpec == Spec /\ WF_vars(Serve)

(***************************************************************************)
(* The export command (export.ts:107-172).  The live stages are fixed, but *)
(* what an address answers is only learnt when it is asked: net records    *)
(* the answers given so far, and an address asked again answers the same.  *)
(***************************************************************************)
LookupDoc == BootToolDoc("lookup", "d1", "codeA", FALSE)
SearchDoc == SyntheticToolDoc("search", "d2", "codeS")

\* what an address may answer to the _mcp_metadata call
CrawlReplies ==
  {NoDocument("unreachable"), NoDocument("empty"), NoDocument("text"),
   StageMetadata("undefined", 0)}
    \cup UNION {
      {BootDoc(u, <<LookupDoc>>, <<"a">>),
       Lacking(BootDoc(u, <<>>, <<"a">>), {"tools"}),
       ModDoc(u, <<"lookup">>, <<>>, <<SearchDoc>>),
       Lacking(ModDoc(u, <<>>, <<>>, <<>>), {"pass_through_tools", "synthetic_tools"}),
       Lacking(ModDoc(u, <<>>, <<>>, <<SearchDoc>>), {"hidden_tools"}),
       UIDoc(u, <<UIResource("search", "ui://search", "html1")>>)} : u \in 0..MaxAddrs}

\* faulty variant of fetchMetadata: whatever comes back is taken as the document
C12_ReplyNotChecked(answer) == [t |-> "ok", v |-> answer]

\* fetchMetadata (export.ts:107-132): connect, call _mcp_metadata, parse the text
fetchMetadata(answer) ==
  CASE answer.reply = "unreachable" -> [t |-> "err", e |-> "connect"]
    [] answer.reply = "empty"       -> [t |-> "err", e |-> "Empty _mcp_metadata response"]
    [] answer.reply = "text"        -> [t |-> "err", e |-> "SyntaxError"]
    [] OTHER                        -> [t |-> "ok", v |-> answer]

\* faulty variant of Reverse: the list is left in discovery order
C11_ReverseOmitted(seq) == seq

Reverse(seq) == [i \in 1..Len(seq) |-> seq[Len(seq) + 1 - i]]

\* stages.find(s => s.stage === kind): the index of the first such stage, or 0
FindStage(list, kind) ==
  LET I == {i \in DOMAIN list : list[i].stage = kind}
  IN  IF I = {} THEN 0 ELSE CHOOSE i \in I : \A j \in I : i <= j

RECURSIVE Join(_, _)
Join(seq, sep) ==
  IF Len(seq) = 0 THEN ""
  ELSE IF Len(seq) = 1 THEN seq[1]
  ELSE seq[1] \o sep \o Join(Tail(seq), sep)

SelectIndices(seq, I) ==
  LET RECURSIVE Pick(_)
      Pick(i) == IF i > Len(seq) THEN <<>>
                 ELSE (IF i \in I THEN <<seq[i]>> ELSE <<>>) \o Pick(i + 1)
  IN  Pick(1)

\* faulty variant of getExposedTools: the boot tools are listed last first
C14_ExposedToolsReversed(list) ==
  LET b == FindStage(list, "boot")
  IN  IF b = 0 THEN <<>>
      ELSE Reverse([i \in DOMAIN list[b].tools |->
                      [name |-> list[b].tools[i].name,
                       description |-> list[b].tools[i].description,
                       inputSchema |-> list[b].tools[i].input_schema]])

(***************************************************************************)
(* getExposedTools (codegen.ts:137-175).                                   *)
(***************************************************************************)
getExposedTools(list) ==
  LET b == FindStage(list, "boot")
      m == FindStage(list, "mod")
  IN  IF m # 0
        THEN LET pt == list[m].pass_through_tools
                 syn == list[m].synthetic_tools
             IN  [i \in DOMAIN pt |->
                    [name |-> pt[i].exposed_name,
                     description |-> IF pt[i].description = NULL THEN ""
                                     ELSE pt[i].description,
                     inputSchema |-> pt[i].exposed_schema]]
                 \o [i \in DOMAIN syn |->
                       [name |-> syn[i].name, description |-> syn[i].description,
                        inputSchema |-> syn[i].input_schema]]
      ELSE IF b # 0
        THEN LET tools == list[b].tools
             IN  [i \in DOMAIN tools |->
                    [name |-> tools[i].name, description |-> tools[i].description,
                     inputSchema |-> tools[i].input_schema]]
      ELSE <<>>

\* a read of stage.field.length (or .map, .some, .filter) where the first
\* stage of that kind lacks the field: TypeError
LacksField(list, kind, field) ==
  LET i == FindStage(list, kind) IN i # 0 /\ field \in list[i].lacks

NamesOf(tools) == [i \in DOMAIN tools |-> tools[i].name]
ExposedNamesOf(pt) == [i \in DOMAIN pt |-> pt[i].exposed_name]
ModifiedTools(pt) == SelectIndices(pt, {i \in DOMAIN pt : HasTransform(pt[i])})

(***************************************************************************)
(* generateServerJs (codegen.ts:177-481): the parts of the emitted text    *)
(* that depend on the stages.  A table that is not declared is not in the  *)
(* text at all.                                                            *)
(***************************************************************************)
NoTable == [declared |-> FALSE, entries |-> <<>>]
Table(entries) == [declared |-> TRUE, entries |-> entries]

NoServerJs ==
  [importsResources |-> FALSE, hasNetwork |-> FALSE, WHITELIST_DOMAINS |-> <<>>,
   bootHandlers |-> NoTable, transforms |-> NoTable, orchestrations |-> NoTable,
   toolRouting |-> NoTable, modBranches |-> FALSE, lastReturn |-> "",
   TOOLS |-> <<>>, uiResources |-> NoTable]

generateServerJs(list) ==
  LET b == FindStage(list, "boot")
      m == FindStage(list, "mod")
      u == FindStage(list, "ui")
      net_ == b # 0 /\ \E i \in DOMAIN list[b].tools : list[b].tools[i].needs_network
      pt == IF m # 0 THEN list[m].pass_through_tools ELSE <<>>
      syn == IF m # 0 THEN list[m].synthetic_tools ELSE <<>>
  IN  [importsResources |-> u # 0,
       hasNetwork |-> net_,
       WHITELIST_DOMAINS |-> IF net_ THEN list[b].whitelist_domains ELSE <<>>,
       bootHandlers |-> IF b # 0 THEN Table(NamesOf(list[b].tools)) ELSE NoTable,
       transforms |-> IF ModifiedTools(pt) # <<>>
                        THEN Table(ExposedNamesOf(ModifiedTools(pt))) ELSE NoTable,
       orchestrations |-> IF Len(syn) > 0 THEN Table(NamesOf(syn)) ELSE NoTable,
       toolRouting |-> IF m # 0
                         THEN Table([i \in DOMAIN pt |->
                                       <<pt[i].exposed_name, pt[i].upstream_name>>])
                         ELSE NoTable,
       modBranches |-> m # 0,
       lastReturn |-> IF b # 0 /\ m = 0 THEN "callBootTool" ELSE "Unknown tool",
       TOOLS |-> getExposedTools(list),
       uiResources |-> IF u # 0 /\ Len(list[u].ui_resources) > 0
                         THEN Table([i \in DOMAIN list[u].ui_resources |->
                                       <<list[u].ui_resources[i].resource_uri,
                                         list[u].ui_resources[i].tool_name>>])
                         ELSE NoTable]

\* faulty variant of generatePackageJson: the text depends on the run
C17_PackageJsonStamped(list) == "exported in run " \o ToString(crawl.run)

\* generatePackageJson (codegen.ts:69-84): join writes undefined as ""
generatePackageJson(list) ==
  "exported from (" \o
    Join([i \in DOMAIN list |->
            IF list[i].stage = "undefined" THEN "" ELSE list[i].stage], "+") \o ")"

\* generateReadme (codegen.ts:86-134), one section per stage of the list
ReadmeSection(stage) ==
  "### " \o stage.stage \o " (" \o stage.version \o ") " \o
  (CASE stage.stage = "boot" ->
          "Tools: " \o Join(NamesOf(stage.tools), ", ") \o
          (IF Len(stage.whitelist_domains) > 0
             THEN " Network domains: " \o Join(stage.whitelist_domains, ", ") ELSE "")
     [] stage.stage = "mod" ->
          (IF Len(stage.pass_through_tools) > 0
             THEN "Pass-through: " \o Join(ExposedNamesOf(stage.pass_through_tools), ", ")
             ELSE "") \o
          (IF Len(stage.synthetic_tools) > 0
             THEN " Synthetic: " \o Join(NamesOf(stage.synthetic_tools), ", ") ELSE "") \o
          (IF Len(stage.hidden_tools) > 0
             THEN " Hidden: " \o Join(stage.hidden_tools, ", ") ELSE "")
     [] stage.stage = "ui" ->
          "UI resources: " \o
            Join([i \in DOMAIN stage.ui_resources |-> stage.ui_resources[i].tool_name], ", ")
     [] OTHER -> "")

generateReadme(list) ==
  "Standalone server with stage(s): " \o
    Join([i \in DOMAIN list |-> ReadmeSection(list[i])], " ")

\* generateReadme reads these fields of every stage of its kind
ReadmeThrows(list) ==
  \E i \in DOMAIN list :
    \/ list[i].stage = "boot" /\ list[i].lacks \cap {"tools", "whitelist_domains"} # {}
    \/ list[i].stage = "mod" /\ list[i].lacks # {}
    \/ list[i].stage = "ui" /\ list[i].lacks # {}

\* writeText / writeJSON (codegen.ts:61-67): one entry of disk per file written
WriteText(path, content) == [path |-> path, text |-> content, serverJs |-> NoServerJs]

\* JSON.stringify of a transform descriptor
TransformJson(t) ==
  "{input_transform_code: " \o t.input_transform_code \o
  ", output_transform_code: " \o t.output_transform_code \o "}"

\* faulty variant of CrawlFetch: an address fetched before ends the crawl with
\* a cycle error
C33_CycleRaisesError(answer) ==
  /\ crawl.pc = "crawl"
  /\ crawl.currentUrl # 0
  /\ Len(crawl.fetched) < MaxCrawl
  /\ LET url == crawl.currentUrl
         got == fetchMetadata(answer)
     IN  /\ net[url] # Unknown => answer = net[url]
         /\ net' = [net EXCEPT ![url] = answer]
         /\ crawl' =
              IF \E i \in 1..Len(crawl.fetched) : crawl.fetched[i] = url
                THEN [crawl EXCEPT !.pc = "failed", !.error = "cycle",
                                   !.fetched = Append(@, url)]
              ELSE IF answer.reply = "unreachable"
                THEN [crawl EXCEPT !.pc = "failed", !.error = got.e,
                                   !.fetched = Append(@, url)]
                ELSE [crawl EXCEPT !.pc = "close", !.got = got, !.open = @ \cup {url},
                                   !.fetched = Append(@, url)]
  /\ UNCHANGED <<serverVars, http, cliVars, disk, inputVars>>

(***************************************************************************)
(* crawlPipeline (export.ts:134-147).  One turn of the loop is two steps:   *)
(* CrawlFetch connects and runs the try block of fetchMetadata, CrawlClose *)
(* runs its finally block and hands the outcome to the loop.               *)
(***************************************************************************)
CrawlFetch(answer) ==
  /\ crawl.pc = "crawl"
  /\ crawl.currentUrl # 0
  /\ Len(crawl.fetched) < MaxCrawl
  /\ LET url == crawl.currentUrl
         got == fetchMetadata(answer)
     IN  /\ net[url] # Unknown => answer = net[url]
         /\ net' = [net EXCEPT ![url] = answer]
         /\ crawl' =
              IF answer.reply = "unreachable"
                THEN \* client.connect throws, before the try block is entered
                     [crawl EXCEPT !.pc = "failed", !.error = got.e,
                                   !.fetched = Append(@, url)]
                ELSE \* connected; the try block has its outcome, finally is next
                     [crawl EXCEPT !.pc = "close", !.got = got, !.open = @ \cup {url},
                                   !.fetched = Append(@, url)]
  /\ UNCHANGED <<serverVars, http, cliVars, disk, inputVars>>

\* faulty variant of CrawlClose: the connection is closed on the success path only
C32_ClosedOnSuccessOnly ==
  /\ crawl.pc = "close"
  /\ crawl' =
       IF crawl.got.t = "err"
         THEN [crawl EXCEPT !.pc = "failed", !.error = crawl.got.e, !.got = [t |-> "none"]]
         ELSE [crawl EXCEPT !.pc = "crawl", !.stages = Append(@, crawl.got.v),
                            !.currentUrl = crawl.got.v.upstream_url,
                            !.open = @ \ {crawl.currentUrl}, !.got = [t |-> "none"]]
  /\ UNCHANGED <<serverVars, http, cliVars, net, disk, inputVars>>

\* finally { await client.close() } (export.ts:129-131), then the outcome of the
\* try block: the error is thrown out of crawlPipeline, or the document is
\* pushed and its upstream_url becomes currentUrl (export.ts:139-142)
CrawlClose ==
  /\ crawl.pc = "close"
  /\ crawl' =
       IF crawl.got.t = "err"
         THEN [crawl EXCEPT !.pc = "failed", !.error = crawl.got.e,
                            !.open = @ \ {crawl.currentUrl}, !.got = [t |-> "none"]]
         ELSE [crawl EXCEPT !.pc = "crawl", !.stages = Append(@, crawl.got.v),
                            !.currentUrl = crawl.got.v.upstream_url,
                            !.open = @ \ {crawl.currentUrl}, !.got = [t |-> "none"]]
  /\ UNCHANGED <<serverVars, http, cliVars, net, disk, inputVars>>

\* the loop ends: stages.reverse() and return to runExport (export.ts:164)
CrawlReturn ==
  /\ crawl.pc = "crawl"
  /\ crawl.currentUrl = 0
  /\ crawl' = [crawl EXCEPT !.pc = "package", !.result = Reverse(crawl.stages)]
  /\ UNCHANGED <<serverVars, http, cliVars, net, disk, inputVars>>

(***************************************************************************)
(* generateProject (codegen.ts:483-543), one step per group of files.  A   *)
(* TypeError leaves the files written before it.                           *)
(***************************************************************************)
GenerateStep(pc, next, throws, writes) ==
  /\ crawl.pc = pc
  /\ IF throws
       THEN /\ crawl' = [crawl EXCEPT !.pc = "failed", !.error = "TypeError"]
            /\ disk' = disk
       ELSE /\ crawl' = [crawl EXCEPT !.pc = next]
            /\ disk' = disk \o writes
  /\ UNCHANGED <<serverVars, http, cliVars, net, inputVars>>

WritePackageJson ==
  GenerateStep("package", "handlers", FALSE,
               <<WriteText("package.json", generatePackageJson(crawl.result))>>)

WriteHandlers ==
  LET list == crawl.result
      b == FindStage(list, "boot")
      tools == IF b # 0 THEN list[b].tools ELSE <<>>
  IN  GenerateStep("handlers", "transforms", LacksField(list, "boot", "tools"),
        [i \in DOMAIN tools |->
           WriteText("handlers/" \o tools[i].name \o ".js", tools[i].handler_code)])

WriteTransforms ==
  LET list == crawl.result
      m == FindStage(list, "mod")
      modifiedTools == IF m # 0 THEN ModifiedTools(list[m].pass_through_tools) ELSE <<>>
  IN  GenerateStep("transforms", "orchestrations",
        LacksField(list, "mod", "pass_through_tools"),
        [i \in DOMAIN modifiedTools |->
           WriteText("transforms/" \o modifiedTools[i].exposed_name \o ".json",
                     TransformJson(modifiedTools[i]))])

WriteOrchestrations ==
  LET list == crawl.result
      m == FindStage(list, "mod")
      syn == IF m # 0 THEN list[m].synthetic_tools ELSE <<>>
  IN  GenerateStep("orchestrations", "ui", LacksField(list, "mod", "synthetic_tools"),
        [i \in DOMAIN syn |->
           WriteText("orchestrations/" \o syn[i].name \o ".js",
                     syn[i].orchestration_code)])

WriteUi ==
  LET list == crawl.result
      u == FindStage(list, "ui")
      res == IF u # 0 THEN list[u].ui_resources ELSE <<>>
  IN  GenerateStep("ui", "server", LacksField(list, "ui", "ui_resources"),
        [i \in DOMAIN res |->
           WriteText("ui/" \o res[i].tool_name \o ".html", res[i].html)])

WriteServerJs ==
  GenerateStep("server", "readme", FALSE,
    <<[path |-> "server.js", text |-> "", serverJs |-> generateServerJs(crawl.result)]>>)

WriteReadme ==
  GenerateStep("readme", "exported", ReadmeThrows(crawl.result),
               <<WriteText("README.md", generateReadme(crawl.result))>>)

ExportInit ==
  /\ stages = [has |-> {}, boot |-> NoBoot, mod |-> NoMod]
  /\ req = [r \in Reqs |-> Idle]
  /\ hostMath = "clean"
  /\ net = [a \in Addrs |-> Unknown]
  /\ crawl = [CrawlIdle EXCEPT !.pc = "crawl", !.currentUrl = 1]
  /\ disk = <<>>
  /\ http = HttpIdle
  /\ deploy = DeployIdle
  /\ wrapper = WrapperIdle
  /\ parser = ParserIdle
  /\ reader = ReaderIdle

ExportNext ==
  \/ \E answer \in CrawlReplies : CrawlFetch(answer)
  \/ CrawlClose
  \/ CrawlReturn
  \/ WritePackageJson
  \/ WriteHandlers
  \/ WriteTransforms
  \/ WriteOrchestrations
  \/ WriteUi
  \/ WriteServerJs
  \/ WriteReadme

ExportSpec == ExportInit /\ [][ExportNext]_vars

(***************************************************************************)
(* generateProject called on a stage list directly, as the tests of        *)
(* src/unnamed/part_008 do, and called again on the same list.             *)
(***************************************************************************)
BootToolPool ==
  {LookupDoc, BootToolDoc("lookup", "d3", "codeB", FALSE),
   BootToolDoc("fetcher", "d1", "codeF", TRUE)}

PassThroughPool ==
  {PassThroughToolDoc("search", "lookup", NULL, "codeIn", "codeOut"),
   PassThroughToolDoc("lookup", "lookup", "d4", NULL, NULL),
   PassThroughToolDoc("lookup", "ghost", "d4", NULL, "codeOut")}

SyntheticPool == {SearchDoc, SyntheticToolDoc("lookup", "d5", "codeL")}

UIPool ==
  {<<>>,
   <<UIResource("lookup", "ui://lookup", "html1")>>,
   <<UIResource("search", "ui://search", "html1")>>,
   <<UIResource("lookup", "ui://lookup", "html1"),
     UIResource("lookup", "ui://lookup/2", "html2")>>}

BootDocs == {BootDoc(0, tools, <<"a">>) : tools \in SeqUpTo(BootToolPool, MaxTools)}

ModDocs ==
  {ModDoc(0, hidden, pt, syn) :
     hidden \in {<<>>, <<"lookup">>},
     pt \in SeqUpTo(PassThroughPool, MaxTools),
     syn \in SeqUpTo(SyntheticPool, MaxTools)}

\* a few stages for the longer lists
FewBootDocs ==
  {BootDoc(0, <<LookupDoc>>, <<"a">>),
   BootDoc(0, <<LookupDoc, BootToolDoc("fetcher", "d1", "codeF", TRUE)>>, <<"a">>)}

FewModDocs ==
  {ModDoc(0, <<"lookup">>, <<>>, <<SearchDoc>>),
   ModDoc(0, <<>>, <<PassThroughToolDoc("lookup", "lookup", "d4", NULL, NULL)>>, <<>>),
   ModDoc(0, <<>>, <<PassThroughToolDoc("lookup", "ghost", "d4", NULL, "codeOut")>>,
          <<SearchDoc>>)}

LackingDocs ==
  {Lacking(BootDoc(0, <<>>, <<"a">>), {"tools"}),
   Lacking(ModDoc(0, <<>>, <<>>, <<>>), {"pass_through_tools"}),
   Lacking(ModDoc(0, <<>>, <<>>, <<>>), {"synthetic_tools"}),
   Lacking(ModDoc(0, <<>>, <<>>, <<>>), {"hidden_tools"}),
   Lacking(UIDoc(0, <<>>), {"ui_resources"})}

SynthInputs ==
  {<<>>}
    \cup {<<b>> : b \in BootDocs}
    \cup {<<b, m>> : b \in FewBootDocs, m \in ModDocs}
    \cup {<<m>> : m \in FewModDocs}
    \cup {<<b, UIDoc(0, ui)>> : b \in FewBootDocs, ui \in UIPool}
    \cup {<<b, m, UIDoc(0, ui)>> : b \in FewBootDocs, m \in FewModDocs, ui \in UIPool}
    \cup {<<b, m1, m2>> : b \in FewBootDocs, m1 \in FewModDocs, m2 \in FewModDocs}
    \cup {<<d>> : d \in LackingDocs}
    \cup {<<b, d>> : b \in FewBootDocs, d \in LackingDocs}

\* generateProject is called again on the same list and output directory
Resynthesize ==
  /\ crawl.pc = "exported"
  /\ crawl.run < MaxRuns
  /\ crawl' = [crawl EXCEPT !.pc = "package", !.run = @ + 1]
  /\ UNCHANGED <<serverVars, http, cliVars, net, disk, inputVars>>

SynthInit ==
  /\ stages = [has |-> {}, boot |-> NoBoot, mod |-> NoMod]
  /\ req = [r \in Reqs |-> Idle]
  /\ hostMath = "clean"
  /\ net = [a \in Addrs |-> Unknown]
  /\ \E list \in SynthInputs : crawl = [CrawlIdle EXCEPT !.pc = "package", !.result = list]
  /\ disk = <<>>
  /\ http = HttpIdle
  /\ deploy = DeployIdle
  /\ wrapper = WrapperIdle
  /\ parser = ParserIdle
  /\ reader = ReaderIdle

SynthNext ==
  \/ WritePackageJson
  \/ WriteHandlers
  \/ WriteTransforms
  \/ WriteOrchestrations
  \/ WriteUi
  \/ WriteServerJs
  \/ WriteReadme
  \/ Resynthesize

SynthSpec == SynthInit /\ [][SynthNext]_vars

FileOnDisk(path) ==
  LET I == {i \in DOMAIN disk : disk[i].path = path}
  IN  IF I = {} THEN NULL ELSE disk[LastIndex(I)].text

(***************************************************************************)
(* The written project is started (node server.js): the tables the server  *)
(* builds at start-up from server.js and the files it reads                *)
(* (codegen.ts:256-298), in the form the dispatch model takes them.  The   *)
(* domains of the pools are one character long.                            *)
(***************************************************************************)
LoadedTables(list) ==
  LET b == FindStage(list, "boot")
      m == FindStage(list, "mod")
  IN  [has |-> (IF b # 0 THEN {"boot"} ELSE {}) \cup (IF m # 0 THEN {"mod"} ELSE {}),
       boot |->
         IF b = 0 THEN NoBoot
         ELSE [tools |->
                 [n \in Range(NamesOf(list[b].tools)) |->
                    [handler_code |-> FileOnDisk("handlers/" \o n \o ".js"),
                     needs_network |->
                       \E i \in DOMAIN list[b].tools :
                         list[b].tools[i].name = n /\ list[b].tools[i].needs_network]],
               whitelist_domains |-> {<<d>> : d \in Range(list[b].whitelist_domains)}],
       mod |->
         IF m = 0 THEN NoMod
         ELSE [hidden_tools |-> Range(list[m].hidden_tools),
               pass_through_tools |->
                 [i \in DOMAIN list[m].pass_through_tools |->
                    LET t == list[m].pass_through_tools[i]
                    IN  [exposed_name |-> t.exposed_name,
                         upstream_name |-> t.upstream_name,
                         input_transform_code |-> t.input_transform_code,
                         output_transform_code |-> t.output_transform_code]],
               synthetic_tools |-> Range(NamesOf(list[m].synthetic_tools))]]

StartServer ==
  /\ crawl.pc = "exported"
  /\ crawl' = [crawl EXCEPT !.pc = "serving"]
  /\ stages' = LoadedTables(crawl.result)
  /\ UNCHANGED <<req, hostMath, net, disk, http, cliVars, inputVars>>

PipelineMods ==
  {ModDoc(0, hidden, pt, syn) :
     hidden \in {<<>>, <<"lookup">>},
     pt \in SeqUpTo(PassThroughPool, MaxRouted),
     syn \in {<<>>, <<SearchDoc>>}}

PipelineInputs ==
  {<<b>> : b \in FewBootDocs} \cup {<<b, m>> : b \in FewBootDocs, m \in PipelineMods}

PipelineInit ==
  /\ stages = [has |-> {}, boot |-> NoBoot, mod |-> NoMod]
  /\ req = [r \in Reqs |-> Idle]
  /\ hostMath = "clean"
  /\ net = [a \in Addrs |-> Unknown]
  /\ \E list \in PipelineInputs :
       crawl = [CrawlIdle EXCEPT !.pc = "package", !.result = list]
  /\ disk = <<>>
  /\ http = HttpIdle
  /\ deploy = DeployIdle
  /\ wrapper = WrapperIdle
  /\ parser = ParserIdle
  /\ reader = ReaderIdle

PipelineNext ==
  \/ WritePackageJson
  \/ WriteHandlers
  \/ WriteTransforms
  \/ WriteOrchestrations
  \/ WriteUi
  \/ WriteServerJs
  \/ WriteReadme
  \/ StartServer
  \/ crawl.pc = "serving" /\ Next

PipelineSpec == PipelineInit /\ [][PipelineNext]_vars

(***************************************************************************)
(* The MCP request handlers the emitted server registers (codegen.ts:      *)
(* 407-438), on the started project: js is the emitted server.js, and the  *)
(* uiResources Map was filled at start-up, in the order of the bindings,   *)
(* with the html read from ui/<tool_name>.html (codegen.ts:374-385).  The  *)
(* resource handlers are registered only when uiResources is declared;     *)
(* without them the MCP server answers "Method not found".                 *)
(***************************************************************************)
ListTools(js) ==
  [i \in DOMAIN js.TOOLS |->
     [name |-> js.TOOLS[i].name, description |-> js.TOOLS[i].description,
      inputSchema |-> js.TOOLS[i].inputSchema]]

\* Array.from(uiResources.entries()): a key set twice keeps its first place
\* and its last value
ListResources(js) ==
  LET e == js.uiResources.entries
      first == {i \in DOMAIN e : \A j \in 1..(i - 1) : e[j][1] # e[i][1]}
      last(i) == LastIndex({j \in DOMAIN e : e[j][1] = e[i][1]})
  IN  IF ~js.uiResources.declared
        THEN [error |-> "Method not found", resources |-> <<>>]
      ELSE [error |-> NULL,
            resources |->
              [k \in DOMAIN SelectIndices(e, first) |->
                 LET i == SelectIndices([x \in DOMAIN e |-> x], first)[k]
                 IN  [uri |-> e[i][1], name |-> e[last(i)][2] \o " UI",
                      mimeType |-> "text/html"]]]

ReadResource(js, uri) ==
  LET e == js.uiResources.entries
      I == {i \in DOMAIN e : e[i][1] = uri}
  IN  IF ~js.uiResources.declared
        THEN [error |-> "Method not found", text |-> NULL]
      ELSE IF I = {}
        THEN [error |-> "Unknown resource: " \o uri, text |-> NULL]
      ELSE [error |-> NULL,
            text |-> FileOnDisk("ui/" \o e[LastIndex(I)][2] \o ".html")]

(***************************************************************************)
(* The HTTP request handler of the emitted server (codegen.ts:388-470).    *)
(* rpc is the JSON-RPC method of the body ("" for a body that does not     *)
(* parse); served is the MCP request handler that ran for it.              *)
(***************************************************************************)
HttpRequest(method, url, authorization, rpc) ==
  /\ http.pc = "idle"
  /\ http' = [http EXCEPT !.pc = "received", !.method = method, !.url = url,
                           !.authorization = authorization, !.rpc = rpc,
                           !.status = 0, !.served = ""]
  /\ UNCHANGED <<serverVars, exportVars, cliVars, inputVars>>

\* req.method === "OPTIONS" (codegen.ts:395-399)
HttpOptions ==
  /\ http.pc = "received"
  /\ http.method = "OPTIONS"
  /\ http' = [http EXCEPT !.pc = "responded", !.status = 204]
  /\ UNCHANGED <<serverVars, exportVars, cliVars, inputVars>>

\* POST /mcp or / (codegen.ts:401-462): the body is parsed and handed to the
\* MCP server, which runs the request handler registered for its method
HttpMcp ==
  /\ http.pc = "received"
  /\ http.method = "POST"
  /\ http.url \in {"/mcp", "/"}
  /\ http' =
       IF http.rpc = ""
         THEN [http EXCEPT !.pc = "responded", !.status = 500]
       ELSE IF http.rpc \in {"resources/list", "resources/read"} /\ ~http.resources
         THEN [http EXCEPT !.pc = "responded", !.status = 200]
       ELSE [http EXCEPT !.pc = "responded", !.status = 200, !.served = http.rpc]
  /\ UNCHANGED <<serverVars, exportVars, cliVars, inputVars>>

\* GET /health (codegen.ts:463-465)
HttpHealth ==
  /\ http.pc = "received"
  /\ http.method = "GET"
  /\ http.url = "/health"
  /\ http' = [http EXCEPT !.pc = "responded", !.status = 200]
  /\ UNCHANGED <<serverVars, exportVars, cliVars, inputVars>>

\* anything else (codegen.ts:466-469)
HttpNotFound ==
  /\ http.pc = "received"
  /\ http.method # "OPTIONS"
  /\ ~(http.method = "POST" /\ http.url \in {"/mcp", "/"})
  /\ ~(http.method = "GET" /\ http.url = "/health")
  /\ http' = [http EXCEPT !.pc = "responded", !.status = 404]
  /\ UNCHANGED <<serverVars, exportVars, cliVars, inputVars>>

\* the response has been sent; the server takes the next request
HttpClose ==
  /\ http.pc = "responded"
  /\ http' = [http EXCEPT !.pc = "idle"]
  /\ UNCHANGED <<serverVars, exportVars, cliVars, inputVars>>

HttpInit ==
  /\ stages = [has |-> {}, boot |-> NoBoot, mod |-> NoMod]
  /\ req = [r \in Reqs |-> Idle]
  /\ hostMath = "clean"
  /\ net = [a \in Addrs |-> Unknown]
  /\ crawl = CrawlIdle
  /\ disk = <<>>
  /\ \E key \in {"", "key1"}, ui \in BOOLEAN :
       http = [HttpIdle EXCEPT !.MCP_API_KEY = key, !.resources = ui]
  /\ deploy = DeployIdle
  /\ wrapper = WrapperIdle
  /\ parser = ParserIdle
  /\ reader = ReaderIdle

HttpNext ==
  \/ \E method \in {"GET", "POST", "OPTIONS"},
        url \in {"/mcp", "/", "/health", "/other"},
        authorization \in {"", "Bearer key1", "Bearer key2", "key1"},
        rpc \in {"", "tools/list", "tools/call", "resources/list", "resources/read"} :
          HttpRequest(method, url, authorization, rpc)
  \/ HttpOptions
  \/ HttpMcp
  \/ HttpHealth
  \/ HttpNotFound
  \/ HttpClose

HttpSpec == HttpInit /\ [][HttpNext]_vars

(***************************************************************************)
(* The deploy command (src/unnamed/part_005, part_006).  The project       *)
(* directory dirA of the working directory /cwd holds deploy.files; every  *)
(* other directory is empty.  stdin.data is the lines written to the pipe  *)
(* so far.  log is the sequence of steps run, each with its outcome.       *)
(***************************************************************************)
Step(name, ok) == [step |-> name, ok |-> ok]

\* path.resolve against the working directory
PathResolve(p) == IF p = "/cwd/dirA" THEN p ELSE "/cwd/" \o p

\* data.trim() of the lines read: blank lines at the ends are dropped
Trim(lines) == Join(SelectIndices(lines, {i \in DOMAIN lines : lines[i] # ""}), "\n")

DeployFail(msg) == [deploy EXCEPT !.pc = "failed", !.error = msg]

\* the upstream `mcpknife export` of the pipe ends (export.ts:149-172 and
\* the export branch of index.ts): every message of runExport goes to
\* stderr, nothing is written to stdout, and the exit closes the pipe
ExportExit(ok) ==
  /\ deploy.upstream = "running"
  /\ deploy' = [deploy EXCEPT !.upstream = IF ok THEN "exported" ELSE "failed",
                              !.stdin.ended = TRUE,
                              !.files = IF ok THEN @ \cup {"package.json", "server.js"}
                                        ELSE @]
  /\ UNCHANGED <<serverVars, exportVars, http, wrapper, inputVars>>

\* runDeploy up to its first await (part_005:188-219); provider.destroy is
\* one `fly apps destroy` (part_006:122-126)
RunDeploy(destroyed) ==
  /\ deploy.pc = "start"
  /\ deploy' =
       IF deploy.args.help THEN [deploy EXCEPT !.pc = "done"]
       ELSE IF deploy.args.target # "fly"
         THEN DeployFail("Unknown deployment target")
       ELSE IF deploy.args.destroy
         THEN IF deploy.args.name = NULL THEN DeployFail("--destroy requires --name")
              ELSE IF destroyed
                THEN [deploy EXCEPT !.pc = "done", !.log = Append(@, Step("destroy", TRUE))]
              ELSE [DeployFail("fly apps destroy failed")
                      EXCEPT !.log = Append(@, Step("destroy", FALSE))]
       ELSE IF deploy.args.projectDir = NULL THEN [deploy EXCEPT !.pc = "stdin"]
       ELSE [deploy EXCEPT !.pc = "validate",
                           !.projectDir = PathResolve(deploy.args.projectDir)]
  /\ UNCHANGED <<serverVars, exportVars, http, wrapper, inputVars>>

\* readPathFromStdin (part_005:89-129): rejected at once on a terminal,
\* settled by the end of the input, or by the timer while the input is open
ReadPathFromStdin ==
  /\ deploy.pc = "stdin"
  /\ deploy' =
       IF deploy.stdin.isTTY THEN DeployFail("deploy requires a project directory")
       ELSE IF ~deploy.stdin.ended
         THEN DeployFail("Timed out waiting for project path on stdin")
       ELSE IF Trim(deploy.stdin.data) = "" THEN DeployFail("Empty input on stdin")
       ELSE [deploy EXCEPT !.pc = "validate",
                           !.projectDir = PathResolve(Trim(deploy.stdin.data))]
  /\ UNCHANGED <<serverVars, exportVars, http, wrapper, inputVars>>

\* faulty variant of ValidateProjectDir: server.js is not looked for
C24_ServerJsNotChecked ==
  LET present == IF deploy.projectDir = "/cwd/dirA" THEN deploy.files ELSE {}
  IN  /\ deploy.pc = "validate"
      /\ deploy' =
           IF "package.json" \notin present
             THEN [DeployFail("missing package.json")
                     EXCEPT !.log = Append(@, Step("validate", FALSE))]
           ELSE [deploy EXCEPT
                   !.pc = "preflight",
                   !.log = Append(@, Step("validate", TRUE)),
                   !.name = IF deploy.args.name \in {NULL, ""} THEN "dirA"
                            ELSE deploy.args.name,
                   !.apiKey = IF deploy.args.apiKey \in {NULL, ""} THEN "random"
                              ELSE deploy.args.apiKey]
      /\ UNCHANGED <<serverVars, exportVars, http, wrapper, inputVars>>

\* validateProjectDir, then the defaults of name and apiKey (part_005:80-87,
\* 223-237); "random" is the key crypto.randomBytes gives
ValidateProjectDir ==
  LET present == IF deploy.projectDir = "/cwd/dirA" THEN deploy.files ELSE {}
  IN  /\ deploy.pc = "validate"
      /\ deploy' =
           IF "package.json" \notin present
             THEN [DeployFail("missing package.json")
                     EXCEPT !.log = Append(@, Step("validate", FALSE))]
           ELSE IF "server.js" \notin present
             THEN [DeployFail("missing server.js")
                     EXCEPT !.log = Append(@, Step("validate", FALSE))]
           ELSE [deploy EXCEPT
                   !.pc = "preflight",
                   !.log = Append(@, Step("validate", TRUE)),
                   !.name = IF deploy.args.name \in {NULL, ""} THEN "dirA"
                            ELSE deploy.args.name,
                   !.apiKey = IF deploy.args.apiKey \in {NULL, ""} THEN "random"
                              ELSE deploy.args.apiKey]
      /\ UNCHANGED <<serverVars, exportVars, http, wrapper, inputVars>>

\* FlyProvider.preflight (part_006:68-86): fly version, then fly auth whoami
Preflight(installed, loggedIn) ==
  /\ deploy.pc = "preflight"
  /\ deploy' =
       IF ~installed
         THEN [DeployFail("fly CLI not found")
                 EXCEPT !.log = Append(@, Step("preflight", FALSE))]
       ELSE IF ~loggedIn
         THEN [DeployFail("Not logged in to Fly.io")
                 EXCEPT !.log = Append(@, Step("preflight", FALSE))]
       ELSE [deploy EXCEPT !.pc = "launch", !.log = Append(@, Step("preflight", TRUE))]
  /\ UNCHANGED <<serverVars, exportVars, http, wrapper, inputVars>>

\* FlyProvider.deploy up to the end of `fly launch` (part_006:88-101);
\* a successful launch leaves fly.toml in the project directory
FlyLaunch(written, launched) ==
  /\ deploy.pc = "launch"
  /\ deploy' =
       IF ~written
         THEN [DeployFail("writeFileSync failed")
                 EXCEPT !.log = Append(@, Step("Dockerfile", FALSE))]
       ELSE IF "fly.toml" \in deploy.files
         THEN [deploy EXCEPT !.pc = "secrets",
                             !.files = @ \cup {"Dockerfile"},
                             !.log = Append(@, Step("Dockerfile", TRUE))]
       ELSE IF ~launched
         THEN [DeployFail("fly launch failed")
                 EXCEPT !.files = @ \cup {"Dockerfile"},
                        !.log = @ \o <<Step("Dockerfile", TRUE), Step("launch", FALSE)>>]
       ELSE [deploy EXCEPT !.pc = "secrets",
                           !.files = @ \cup {"Dockerfile", "fly.toml"},
                           !.log = @ \o <<Step("Dockerfile", TRUE), Step("launch", TRUE)>>]
  /\ UNCHANGED <<serverVars, exportVars, http, wrapper, inputVars>>

\* faulty variant of FlySecrets: the failure of `fly secrets set` is swallowed
C25_SecretsFailureIgnored(ok) ==
  /\ deploy.pc = "secrets"
  /\ deploy' =
       [deploy EXCEPT !.pc = "flydeploy",
                      !.log = Append(@, Step("secrets", ok)),
                      !.secrets = <<"secrets", "set", "MCP_API_KEY=" \o deploy.apiKey>>
                                    \o deploy.args.env \o <<"--app", deploy.name>>]
  /\ UNCHANGED <<serverVars, exportVars, http, wrapper, inputVars>>

\* buildFlySecretsArgs and `fly secrets set` (part_006:45-55, 103-106)
FlySecrets(ok) ==
  /\ deploy.pc = "secrets"
  /\ deploy' =
       [(IF ok THEN [deploy EXCEPT !.pc = "flydeploy"]
         ELSE DeployFail("fly secrets set failed"))
          EXCEPT !.log = Append(@, Step("secrets", ok)),
                 !.secrets = <<"secrets", "set", "MCP_API_KEY=" \o deploy.apiKey>>
                               \o deploy.args.env \o <<"--app", deploy.name>>]
  /\ UNCHANGED <<serverVars, exportVars, http, wrapper, inputVars>>

\* `fly deploy`, the DeployResult, and the URL runDeploy writes to stdout
\* (part_006:108-119, part_005:245-250)
FlyDeploy(ok) ==
  /\ deploy.pc = "flydeploy"
  /\ deploy' =
       IF ok
         THEN [deploy EXCEPT !.pc = "done", !.log = Append(@, Step("deploy", TRUE)),
                 !.stdout = <<"https://" \o deploy.name \o ".fly.dev/mcp">>]
       ELSE [DeployFail("fly deploy failed")
               EXCEPT !.log = Append(@, Step("deploy", FALSE))]
  /\ UNCHANGED <<serverVars, exportVars, http, wrapper, inputVars>>

DeployArgs ==
  [target : {"fly", "gcp"}, name : {NULL, "app"}, region : {NULL}, env : {<<>>, <<"K=V">>},
   apiKey : {NULL, "sk-test"}, destroy : BOOLEAN, help : BOOLEAN,
   projectDir : {NULL, "dirA", "/cwd/dirA", "dirB"}]

\* stdin of the command: a terminal, a pipe another program has written and
\* closed, or the pipe of a running `mcpknife export --output-dir dirA`
DeployStdin ==
  {[stdin |-> [isTTY |-> TRUE, data |-> <<>>, ended |-> FALSE], upstream |-> "none"],
   [stdin |-> [isTTY |-> FALSE, data |-> <<>>, ended |-> FALSE], upstream |-> "running"]}
    \cup {[stdin |-> [isTTY |-> FALSE, data |-> lines, ended |-> TRUE], upstream |-> "none"] :
            lines \in {<<>>, <<"">>, <<"/cwd/dirA", "">>, <<"dirA">>, <<"dirB">>,
                       <<"done", "/cwd/dirA">>}}

DeployInit ==
  /\ stages = [has |-> {}, boot |-> NoBoot, mod |-> NoMod]
  /\ req = [r \in Reqs |-> Idle]
  /\ hostMath = "clean"
  /\ net = [a \in Addrs |-> Unknown]
  /\ crawl = CrawlIdle
  /\ disk = <<>>
  /\ http = HttpIdle
  /\ wrapper = WrapperIdle
  /\ parser = ParserIdle
  /\ reader = ReaderIdle
  /\ \E args \in DeployArgs, in \in DeployStdin,
        files \in SUBSET {"package.json", "server.js", "fly.toml"} :
       deploy = [DeployIdle EXCEPT !.pc = "start", !.args = args, !.stdin = in.stdin,
                                   !.upstream = in.upstream, !.files = files]

DeployNext ==
  \/ \E ok \in BOOLEAN : ExportExit(ok)
  \/ \E destroyed \in BOOLEAN : RunDeploy(destroyed)
  \/ ReadPathFromStdin
  \/ ValidateProjectDir
  \/ \E installed, loggedIn \in BOOLEAN : Preflight(installed, loggedIn)
  \/ \E written, launched \in BOOLEAN : FlyLaunch(written, launched)
  \/ \E ok \in BOOLEAN : FlySecrets(ok)
  \/ \E ok \in BOOLEAN : FlyDeploy(ok)

DeploySpec == DeployInit /\ [][DeployNext]_vars

(***************************************************************************)
(* The wrapper around boot, mod and ui: index.ts (src/src/args.ts:100-132),*)
(* loadConfig (src/unnamed/part_004), buildArgv (src/src/args.ts:6-37) and *)
(* spawnTool (src/src/providers/types.ts:79-113).                          *)
(* A JSON value is held as its type and its text; Undefined is the value   *)
(* of a key an object does not have.  An argument of the command line is   *)
(* held as the text before its first "=", whether it has an "=", and the   *)
(* text after it.  An exit code is held as its decimal text.               *)
(***************************************************************************)
JsonValue(type, text) == [type |-> type, text |-> text]
Undefined == JsonValue("undefined", "undefined")
JsonString(s) == JsonValue("string", s)

ConfigKeys == {"provider", "model", "apiKey", "verbose"}
EmptyConfig == [k \in ConfigKeys |-> Undefined]

Arg(name) == [name |-> name, eq |-> FALSE, value |-> ""]
ArgEq(name, value) == [name |-> name, eq |-> TRUE, value |-> value]

\* readConfigFile (part_004:20-47) on a file of the given content
readConfigFile(filePath, file) ==
  IF file.kind = "missing" THEN [error |-> NULL, config |-> EmptyConfig]
  ELSE IF file.kind = "unreadable" THEN [error |-> "EACCES", config |-> EmptyConfig]
  ELSE IF file.kind = "blank" THEN [error |-> NULL, config |-> EmptyConfig]
  ELSE IF file.kind = "malformed"
    THEN [error |-> "mcpknife: invalid JSON in " \o filePath, config |-> EmptyConfig]
  ELSE IF file.kind \in {"null", "string", "number", "array"}
    THEN [error |-> NULL, config |-> EmptyConfig]
  ELSE [error |-> NULL, config |-> file.object]

\* faulty variant of loadConfig: the user file is spread last
C28_UserOverridesProject(userFile, projectFile) ==
  LET userConfig == readConfigFile("/home/.mcpkniferc", userFile)
      projectConfig == readConfigFile("/cwd/.mcpkniferc", projectFile)
  IN  IF userConfig.error # NULL THEN userConfig
      ELSE IF projectConfig.error # NULL THEN projectConfig
      ELSE [error |-> NULL,
            config |-> [k \in ConfigKeys |->
                          IF userConfig.config[k] # Undefined THEN userConfig.config[k]
                          ELSE projectConfig.config[k]]]

\* loadConfig (part_004:49-60): { ...userConfig, ...projectConfig }
loadConfig(userFile, projectFile) ==
  LET userConfig == readConfigFile("/home/.mcpkniferc", userFile)
      projectConfig == readConfigFile("/cwd/.mcpkniferc", projectFile)
  IN  IF userConfig.error # NULL THEN userConfig
      ELSE IF projectConfig.error # NULL THEN projectConfig
      ELSE [error |-> NULL,
            config |-> [k \in ConfigKeys |->
                          IF projectConfig.config[k] # Undefined
                            THEN projectConfig.config[k]
                          ELSE userConfig.config[k]]]

CONFIG_FLAG_MAP ==
  <<[configKey |-> "provider", flag |-> "--provider", isBoolean |-> FALSE],
    [configKey |-> "model", flag |-> "--model", isBoolean |-> FALSE],
    [configKey |-> "apiKey", flag |-> "--api-key", isBoolean |-> FALSE],
    [configKey |-> "verbose", flag |-> "--verbose", isBoolean |-> TRUE]>>

\* faulty variant of hasFlag: the form --flag=value is not recognised
C26_HasFlagExactOnly(argv, flag) ==
  \E i \in DOMAIN argv : argv[i].name = flag /\ ~argv[i].eq

\* hasFlag (args.ts:17-19): arg === flag || arg.startsWith(flag + "=")
hasFlag(argv, flag) ==
  \E i \in DOMAIN argv :
    \/ argv[i].name = flag /\ ~argv[i].eq
    \/ argv[i].name = flag /\ argv[i].eq

\* faulty variant of buildArgv: rawArgv is not searched for the flag
C40_RawArgvNotSearched(config, rawArgv) ==
  LET injected(k) ==
        LET e == CONFIG_FLAG_MAP[k]
            value == config[e.configKey]
        IN  IF value = Undefined \/ value = JsonValue("boolean", "false") THEN <<>>
            ELSE IF e.isBoolean THEN <<Arg(e.flag)>>
            ELSE <<Arg(e.flag), Arg(value.text)>>
  IN  injected(1) \o injected(2) \o injected(3) \o injected(4) \o rawArgv

\* buildArgv (args.ts:21-37)
buildArgv(config, rawArgv) ==
  LET injected(k) ==
        LET e == CONFIG_FLAG_MAP[k]
            value == config[e.configKey]
        IN  IF value = Undefined \/ value = JsonValue("boolean", "false") THEN <<>>
            ELSE IF hasFlag(rawArgv, e.flag) THEN <<>>
            ELSE IF e.isBoolean THEN <<Arg(e.flag)>>
            ELSE <<Arg(e.flag), Arg(value.text)>>
  IN  injected(1) \o injected(2) \o injected(3) \o injected(4) \o rawArgv

\* index.ts for a subcommand of BINARY_MAP (args.ts:127-132), up to the
\* return of spawnTool (types.ts:79-113): an exception of loadConfig or of
\* resolveBinary is uncaught and ends the process with status 1
Main(resolved) ==
  LET loaded == loadConfig(wrapper.userFile, wrapper.projectFile)
  IN  /\ wrapper.pc = "start"
      /\ wrapper' =
           IF loaded.error # NULL
             THEN [wrapper EXCEPT !.pc = "exited", !.error = loaded.error,
                                  !.exit = [code |-> "1", signal |-> NULL]]
           ELSE IF ~resolved
             THEN [wrapper EXCEPT !.pc = "exited", !.config = loaded.config,
                                  !.error = "mcpknife: package not found",
                                  !.exit = [code |-> "1", signal |-> NULL]]
           ELSE [wrapper EXCEPT !.pc = "running", !.config = loaded.config,
                                !.argv = buildArgv(loaded.config, wrapper.rawArgv)]
      /\ UNCHANGED <<serverVars, exportVars, http, deploy, inputVars>>

\* the listener forwardSignal installs (types.ts:85-94) runs for a signal
\* delivered to the wrapper; child.killed is set by the first child.kill
\* that sent a signal
ForwardSignal(signal) ==
  /\ wrapper.pc = "running"
  /\ Len(wrapper.delivered) < MaxSignals
  /\ wrapper' =
       IF ~wrapper.child.killed
         THEN [wrapper EXCEPT !.delivered = Append(@, signal),
                              !.child.killed = TRUE,
                              !.child.received = Append(@, signal)]
       ELSE [wrapper EXCEPT !.delivered = Append(@, signal)]
  /\ UNCHANGED <<serverVars, exportVars, http, deploy, inputVars>>

\* child.on("error") (types.ts:96-104)
ChildError ==
  /\ wrapper.pc = "running"
  /\ wrapper.delivered = <<>>
  /\ wrapper' = [wrapper EXCEPT !.pc = "exited", !.error = "mcpx: failed to start",
                                !.exit = [code |-> "1", signal |-> NULL]]
  /\ UNCHANGED <<serverVars, exportVars, http, deploy, inputVars>>

\* child.on("close") (types.ts:106-112).  The child ended with an exit code
\* (signal NULL) or was ended by a signal (code NULL).  process.kill(
\* process.pid, signal) of SIGINT or SIGTERM runs the listener installed at
\* types.ts:85-94 instead of ending the process; nothing is then left to
\* wait for and the process ends with status 0.
ChildClose(code, signal) ==
  /\ wrapper.pc = "running"
  /\ wrapper' =
       [wrapper EXCEPT
          !.child.status = [code |-> code, signal |-> signal],
          !.pc = IF signal # NULL /\ signal \notin {"SIGINT", "SIGTERM"}
                   THEN "signaled" ELSE "exited",
          !.exit = IF signal = NULL THEN [code |-> code, signal |-> NULL]
                   ELSE IF signal \in {"SIGINT", "SIGTERM"}
                     THEN [code |-> "0", signal |-> NULL]
                   ELSE [code |-> NULL, signal |-> signal]]
  /\ UNCHANGED <<serverVars, exportVars, http, deploy, inputVars>>

\* what the spawned tool takes as its API key, by the documented resolution
\* order: the --api-key flag of its argv (the last one given), else the
\* environment variable
EffectiveApiKey(argv, env) ==
  LET I == {i \in DOMAIN argv : argv[i].name = "--api-key"}
      i == LastIndex(I)
  IN  IF I = {} THEN env.API_KEY
      ELSE IF argv[i].eq THEN argv[i].value
      ELSE IF i < Len(argv) THEN argv[i + 1].name
      ELSE NULL

ConfigObjects ==
  {[EmptyConfig EXCEPT !.provider = JsonString("anthropic"),
                       !.apiKey = JsonString("sk-user")],
   [EmptyConfig EXCEPT !.provider = JsonString("openai"),
                       !.verbose = JsonValue("boolean", "true")],
   [EmptyConfig EXCEPT !.model = JsonString("m1"),
                       !.verbose = JsonValue("boolean", "false")]}

ConfigFiles ==
  {[kind |-> k, object |-> EmptyConfig] :
     k \in {"missing", "blank", "malformed", "null", "string"}}
    \cup {[kind |-> "object", object |-> o] : o \in ConfigObjects}

ArgPool ==
  {Arg("--provider"), ArgEq("--provider", "openai"), Arg("openai"),
   ArgEq("--api-key", "sk-cli"), Arg("--verbose"), Arg("--providers")}

WrapperInit ==
  /\ stages = [has |-> {}, boot |-> NoBoot, mod |-> NoMod]
  /\ req = [r \in Reqs |-> Idle]
  /\ hostMath = "clean"
  /\ net = [a \in Addrs |-> Unknown]
  /\ crawl = CrawlIdle
  /\ disk = <<>>
  /\ http = HttpIdle
  /\ deploy = DeployIdle
  /\ parser = ParserIdle
  /\ reader = ReaderIdle
  /\ \E userFile, projectFile \in ConfigFiles, rawArgv \in SeqUpTo(ArgPool, MaxArgs),
        key \in {NULL, "sk-env"} :
       wrapper = [WrapperIdle EXCEPT !.pc = "start", !.userFile = userFile,
                                     !.projectFile = projectFile, !.rawArgv = rawArgv,
                                     !.env = [API_KEY |-> key]]

WrapperNext ==
  \/ \E resolved \in BOOLEAN : Main(resolved)
  \/ \E signal \in {"SIGINT", "SIGTERM"} : ForwardSignal(signal)
  \/ ChildError
  \/ \E code \in {"0", "42"} : ChildClose(code, NULL)
  \/ \E signal \in {"SIGINT", "SIGTERM", "SIGKILL"} : ChildClose(NULL, signal)

WrapperSpec == WrapperInit /\ [][WrapperNext]_vars

\* ---------------------------------------------------------------------------
\* The argument parsers of the export and the deploy command.  An argument is
\* held as its text split at the first "=": `--name`, `--name=app`, `FOO=bar`.

MaxArgv == 3   \* arguments on a parsed command line

\* the argument as the string the parser compares and slices
Text(arg) == IF arg.eq THEN arg.name \o "=" \o arg.value ELSE arg.name

\* the names that begin with "-"
DashNames ==
  {"--help", "-h", "--destroy", "--output-dir", "--target", "--name", "--region",
   "--env", "--api-key"}
StartsWithDash(arg) == arg.name \in DashNames

ParserArgPool ==
  {Arg("--help"), Arg("--output-dir"), Arg("--target"), Arg("--name"), Arg("--region"),
   Arg("--env"), Arg("--api-key"), ArgEq("--env", "FOO=bar"), ArgEq("--name", "dirA"),
   Arg("dirA"), Arg(""), ArgEq("FOO", "bar"), ArgEq("FOO", "qux"), ArgEq("BAZ", "qux")}

\* pair.indexOf("=") with the slices before and after it
SplitPair(pair) == CHOOSE a \in ParserArgPool : Text(a) = pair

\* result.env[key] = value when the pair has a "=" after its first character
SetEnv(env, pair) ==
  LET a == SplitPair(pair)
  IN  IF a.eq /\ a.name /= ""
        THEN [k \in DOMAIN env \cup {a.name} |-> IF k = a.name THEN a.value ELSE env[k]]
        ELSE env

RECURSIVE ExportArgsLoop(_, _, _)
ExportArgsLoop(argv, i, result) ==
  IF i > Len(argv) THEN result
  ELSE LET arg == argv[i]
       IN  IF Text(arg) \in {"--help", "-h"}
             THEN ExportArgsLoop(argv, i + 1, [result EXCEPT !.help = TRUE])
           ELSE IF Text(arg) = "--output-dir" /\ i + 1 <= Len(argv)
             THEN ExportArgsLoop(argv, i + 2, [result EXCEPT !.outputDir = Text(argv[i + 1])])
           ELSE IF arg.eq /\ arg.name = "--output-dir"
             THEN ExportArgsLoop(argv, i + 1, [result EXCEPT !.outputDir = arg.value])
           ELSE ExportArgsLoop(argv, i + 1, result)

parseExportArgs(argv) ==
  ExportArgsLoop(argv, 1, [outputDir |-> "./exported_mcp", help |-> FALSE])

RECURSIVE DeployArgsLoop(_, _, _)
DeployArgsLoop(argv, i, result) ==
  IF i > Len(argv) THEN result
  ELSE LET arg == argv[i]
           more == i + 1 <= Len(argv)
           is(flag) == Text(arg) = flag
           startsWith(flag) == arg.eq /\ arg.name = flag
       IN  IF is("--help") \/ is("-h")
             THEN DeployArgsLoop(argv, i + 1, [result EXCEPT !.help = TRUE])
           ELSE IF is("--destroy")
             THEN DeployArgsLoop(argv, i + 1, [result EXCEPT !.destroy = TRUE])
           ELSE IF is("--target") /\ more
             THEN DeployArgsLoop(argv, i + 2, [result EXCEPT !.target = Text(argv[i + 1])])
           ELSE IF startsWith("--target")
             THEN DeployArgsLoop(argv, i + 1, [result EXCEPT !.target = arg.value])
           ELSE IF is("--name") /\ more
             THEN DeployArgsLoop(argv, i + 2, [result EXCEPT !.name = Text(argv[i + 1])])
           ELSE IF startsWith("--name")
             THEN DeployArgsLoop(argv, i + 1, [result EXCEPT !.name = arg.value])
           ELSE IF is("--region") /\ more
             THEN DeployArgsLoop(argv, i + 2, [result EXCEPT !.region = Text(argv[i + 1])])
           ELSE IF startsWith("--region")
             THEN DeployArgsLoop(argv, i + 1, [result EXCEPT !.region = arg.value])
           ELSE IF is("--env") /\ more
             THEN DeployArgsLoop(argv, i + 2,
                                 [result EXCEPT !.env = SetEnv(@, Text(argv[i + 1]))])
           ELSE IF startsWith("--env")
             THEN DeployArgsLoop(argv, i + 1, [result EXCEPT !.env = SetEnv(@, arg.value)])
           ELSE IF is("--api-key") /\ more
             THEN DeployArgsLoop(argv, i + 2, [result EXCEPT !.apiKey = Text(argv[i + 1])])
           ELSE IF startsWith("--api-key")
             THEN DeployArgsLoop(argv, i + 1, [result EXCEPT !.apiKey = arg.value])
           ELSE IF ~StartsWithDash(arg) /\ result.projectDir \in {NULL, ""}
             THEN DeployArgsLoop(argv, i + 1, [result EXCEPT !.projectDir = Text(arg)])
           ELSE DeployArgsLoop(argv, i + 1, result)

\* env is held here as the object from key to value
parseDeployArgs(argv) ==
  DeployArgsLoop(argv, 1,
                 [target |-> "fly", name |-> NULL, region |-> NULL, env |-> <<>>,
                  apiKey |-> NULL, destroy |-> FALSE, help |-> FALSE, projectDir |-> NULL])

\* `mcpknife export <argv>`
ParseExportArgs ==
  /\ parser.pc = "start"
  /\ parser' = [parser EXCEPT !.pc = "export", !.result = parseExportArgs(parser.argv)]
  /\ UNCHANGED <<serverVars, exportVars, http, cliVars, reader>>

\* the deploy command called on argv
ParseDeployArgs ==
  /\ parser.pc = "start"
  /\ parser' = [parser EXCEPT !.pc = "deploy", !.result = parseDeployArgs(parser.argv)]
  /\ UNCHANGED <<serverVars, exportVars, http, cliVars, reader>>

ParserInit ==
  /\ stages = [has |-> {}, boot |-> NoBoot, mod |-> NoMod]
  /\ req = [r \in Reqs |-> Idle]
  /\ hostMath = "clean"
  /\ net = [a \in Addrs |-> Unknown]
  /\ crawl = CrawlIdle
  /\ disk = <<>>
  /\ http = HttpIdle
  /\ deploy = DeployIdle
  /\ wrapper = WrapperIdle
  /\ reader = ReaderIdle
  /\ \E argv \in SeqUpTo(ParserArgPool, MaxArgv) :
       parser = [pc |-> "start", argv |-> argv, result |-> NULL]

ParserNext == ParseExportArgs \/ ParseDeployArgs

ParserSpec == ParserInit /\ [][ParserNext]_vars

\* ---------------------------------------------------------------------------
\* readUrlFromStdin (export.ts:53-105).  Text is a sequence of characters;
\* the two characters "h", ":" stand for the scheme http:// or https://.

MaxInput == 4   \* characters the writer of the pipe sends before it closes it

Chars == {"h", ":", "a", " ", "\n"}
Whitespace == {" ", "\n"}

\* String.prototype.trim
TrimText(text) ==
  LET I == {i \in DOMAIN text : text[i] \notin Whitespace}
  IN  IF I = {} THEN <<>>
      ELSE SubSeq(text, CHOOSE i \in I : \A j \in I : i <= j,
                        CHOOSE i \in I : \A j \in I : j <= i)

\* text.split("\n")
RECURSIVE SplitLines(_)
SplitLines(text) ==
  LET I == {i \in DOMAIN text : text[i] = "\n"}
  IN  IF I = {} THEN <<text>>
      ELSE LET i == CHOOSE k \in I : \A j \in I : k <= j
           IN  <<SubSeq(text, 1, i - 1)>> \o SplitLines(SubSeq(text, i + 1, Len(text)))

\* trimmed.startsWith("http://") || trimmed.startsWith("https://")
StartsWithScheme(text) == Len(text) >= 2 /\ text[1] = "h" /\ text[2] = ":"

\* the call: a terminal is refused, a pipe gets its listeners and the timer
ReadUrlFromStdin ==
  /\ reader.pc = "start"
  /\ reader' = IF reader.isTTY
                 THEN [reader EXCEPT !.pc = "rejected",
                                     !.error = "export reads upstream URL from stdin pipe"]
                 ELSE [reader EXCEPT !.pc = "reading"]
  /\ UNCHANGED <<serverVars, exportVars, http, cliVars, parser>>

\* the data listener on a chunk of n characters (export.ts:72-86)
StdinData(n) ==
  /\ reader.pc = "reading"
  /\ n >= 1
  /\ reader.sent + n <= Len(reader.input)
  /\ LET data == reader.data \o SubSeq(reader.input, reader.sent + 1, reader.sent + n)
         lines == SplitLines(data)
         urls == {i \in DOMAIN lines : StartsWithScheme(TrimText(lines[i]))}
     IN  reader' =
           IF urls = {}
             THEN [reader EXCEPT !.data = data, !.sent = @ + n]
             ELSE [reader EXCEPT !.data = data, !.sent = @ + n, !.pc = "resolved",
                     !.url = TrimText(lines[CHOOSE i \in urls : \A j \in urls : i <= j])]
  /\ UNCHANGED <<serverVars, exportVars, http, cliVars, parser>>

\* the end listener (export.ts:88-96): the writer has closed the pipe
StdinEnd ==
  /\ reader.pc = "reading"
  /\ reader.sent = Len(reader.input)
  /\ LET trimmed == TrimText(reader.data)
     IN  reader' =
           IF StartsWithScheme(trimmed)
             THEN [reader EXCEPT !.pc = "resolved", !.url = trimmed]
             ELSE [reader EXCEPT !.pc = "rejected",
                                 !.error = "Invalid upstream URL on stdin"]
  /\ UNCHANGED <<serverVars, exportVars, http, cliVars, parser>>

\* the error listener (export.ts:98-101)
StdinError ==
  /\ reader.pc = "reading"
  /\ reader' = [reader EXCEPT !.pc = "rejected", !.error = "stream error"]
  /\ UNCHANGED <<serverVars, exportVars, http, cliVars, parser>>

\* the timer (export.ts:65-69) elapses before the promise is settled
StdinTimeout ==
  /\ reader.pc = "reading"
  /\ reader' = [reader EXCEPT !.pc = "rejected",
                              !.error = "Timed out waiting for upstream URL on stdin"]
  /\ UNCHANGED <<serverVars, exportVars, http, cliVars, parser>>

ReaderInit ==
  /\ stages = [has |-> {}, boot |-> NoBoot, mod |-> NoMod]
  /\ req = [r \in Reqs |-> Idle]
  /\ hostMath = "clean"
  /\ net = [a \in Addrs |-> Unknown]
  /\ crawl = CrawlIdle
  /\ disk = <<>>
  /\ http = HttpIdle
  /\ deploy = DeployIdle
  /\ wrapper = WrapperIdle
  /\ parser = ParserIdle
  /\ \E isTTY \in BOOLEAN, input \in SeqUpTo(Chars, MaxInput) :
       /\ isTTY => input = <<>>
       /\ reader = [ReaderIdle EXCEPT !.pc = "start", !.isTTY = isTTY, !.input = input]

ReaderNext ==
  \/ ReadUrlFromStdin
  \/ \E n \in 1..MaxInput : StdinData(n)
  \/ StdinEnd
  \/ StdinError
  \/ StdinTimeout

ReaderSpec == ReaderInit /\ [][ReaderNext]_vars

TypeOK ==
  /\ hostMath \in {"clean", "dirty"}
  /\ \A r \in Reqs : req[r].outcome \in {"pending", "fulfilled", "rejected"}

Done(r) == req[r].pc = "done"
IsToolError(q) == q.outcome = "fulfilled" /\ q.isError

IsSynthetic(st, name) == HasMod(st) /\ name \in st.mod.synthetic_tools
IsRouted(st, name) ==
  HasMod(st) /\ \E i \in DOMAIN st.mod.pass_through_tools :
                  st.mod.pass_through_tools[i].exposed_name = name
IsBootTool(st, name) == HasBoot(st) /\ name \in DOMAIN st.boot.tools

\* the first step of section 4.4 that matches a name
MatchingStep(st, name) ==
  IF IsSynthetic(st, name) THEN "synthetic"
  ELSE IF IsRouted(st, name) THEN "routed"
  ELSE IF HasBoot(st) /\ ~HasMod(st) THEN "direct"
  ELSE "unknown"

(***************************************************************************)
(* C1.  Every call-tool request is answered by the first step, in the      *)
(* order synthetic, routed, direct, unknown, that matches its name; for a  *)
(* name that is both a synthetic tool and an exposedName of a routing      *)
(* entry only the orchestration runs: no transform runs and the upstream   *)
(* handler is not run by the routed step.                                  *)
(***************************************************************************)
C1_FirstMatchingStepWins ==
  \A r \in Reqs :
    req[r].pc # "new" =>
      /\ req[r].step = MatchingStep(stages, req[r].name)
      /\ IsSynthetic(stages, req[r].name) =>
            /\ req[r].pc \notin {"inT", "outT", "stuck"}
            /\ req[r].pc \in {"boot", "handler"} => req[r].subcalls >= 1

(***************************************************************************)
(* C2.  On a chain with a boot and a mod stage, whatever the number of     *)
(* synthetic tools and of transforms, a call of a routed name takes the    *)
(* routed step: input transform (if present), then the boot handler named  *)
(* by upstream_name, then the output transform (if present), and the       *)
(* value so built is returned.                                             *)
(***************************************************************************)
C2_RoutedCallRunsThePipeline ==
  \A r \in Reqs :
    LET q == req[r]
    IN  (/\ q.pc # "new" /\ HasBoot(stages) /\ IsRouted(stages, q.name)
         /\ ~IsSynthetic(stages, q.name)) =>
          /\ q.step = "routed"
          /\ q.target = toolRouting(stages, q.name)
          /\ q.pc = "handler" => "out" \notin Range(q.val)
          /\ q.pc = "outT" => q.val[Len(q.val)] \notin {"in", "out"}
          /\ (q.pc = "done" /\ q.outcome = "fulfilled"
                /\ OutputTransformOf(stages, q.name) /\ "out" \in Range(q.val)) =>
                q.val[Len(q.val)] = "out"

(***************************************************************************)
(* C3.  On every chain shape a call of a name that no synthetic, routed or *)
(* direct tool has is answered with the tool-error payload (isError true)  *)
(* as its result, never with a thrown error.                               *)
(***************************************************************************)
NoSuchTool(st, name) ==
  /\ ~IsSynthetic(st, name)
  /\ ~IsRouted(st, name)
  /\ ~(~HasMod(st) /\ IsBootTool(st, name))

C3_UnknownToolIsErrorPayload ==
  \A r \in Reqs :
    (Done(r) /\ NoSuchTool(stages, req[r].name)) => IsToolError(req[r])

(***************************************************************************)
(* C4.  A call whose handler or orchestration fragment throws, rejects, is *)
(* timed out or is refused a network target is answered with the           *)
(* tool-error payload (isError true): the failure does not leave the call  *)
(* as a thrown error.                                                      *)
(***************************************************************************)
SandboxFailures == {"fragment", "timeout", "denied"}

C4_SandboxFailureIsErrorPayload ==
  \A r \in Reqs :
    (Done(r) /\ req[r].err \in SandboxFailures) => IsToolError(req[r])

(***************************************************************************)
(* C5.  Nothing that a fragment wrote in one invocation, to its context or *)
(* through a utility binding, is seen by a concurrent or later invocation. *)
(***************************************************************************)
C5_InvocationsAreIsolated ==
  \A r \in Reqs : "saw:dirty" \notin Range(req[r].val)

(***************************************************************************)
(* C6.  Every fragment that runs (handler, input transform, output         *)
(* transform, orchestration) sees only the allowlisted bindings, never the *)
(* ambient global scope, and runs under the sandbox timeout.               *)
(***************************************************************************)
AllowlistedBindings == {"args", "result", "fetch", "callTool"} \cup UtilityBindings

C6_EveryFragmentIsSandboxed ==
  \A r \in Reqs :
    req[r].pc \in {"handler", "orch", "inT", "outT"} =>
      /\ FragmentScope(stages, req[r]) \subseteq AllowlistedBindings
      /\ FragmentTimeout(req[r]) = SANDBOX_TIMEOUT_MS

(***************************************************************************)
(* C7.  The handler of a boot tool has the fetch binding only if that tool *)
(* declared needs_network, also when another tool of the stage did.        *)
(***************************************************************************)
C7_FetchOnlyForToolsThatNeedIt ==
  \A r \in Reqs :
    (req[r].pc = "handler" /\ "fetch" \in FragmentScope(stages, req[r])) =>
      stages.boot.tools[req[r].target].needs_network

(***************************************************************************)
(* C8.  A fetch of a sandboxed fragment opens a connection only to a host  *)
(* that equals an allowlisted domain or ends with "." and that domain.     *)
(***************************************************************************)
HostAllowed(st, hostname) ==
  \E d \in WHITELIST_DOMAINS(st) : hostname = d \/ EndsWith(hostname, <<".">> \o d)

C8_ConnectionsOnlyToAllowlistedHosts ==
  \A r \in Reqs :
    req[r].pc = "fetching" => HostAllowed(stages, req[r].host)

(***************************************************************************)
(* C9.  callTool(name, args) of an orchestration runs the boot handler     *)
(* called name and gives the orchestration its result; with a name that is *)
(* no boot tool it is rejected; and no callTool starts an orchestration.   *)
(***************************************************************************)
C9_CallToolRunsBootHandlersOnly ==
  \A r \in Reqs :
    LET q == req[r]
    IN  /\ (q.pc = "resume" /\ IsBootTool(stages, q.target)) =>
              q.err # "Unknown boot tool"
        /\ (q.pc = "resume" /\ ~IsBootTool(stages, q.target)) => q.err # NULL
        /\ q.pc = "orch" => q.subcalls = 0
        /\ (q.step = "synthetic" /\ q.pc = "handler") =>
              /\ q.subcalls >= 1
              /\ IsBootTool(stages, q.target)

(***************************************************************************)
(* C10.  Every call-tool request is eventually answered: a request that    *)
(* has been received reaches its answer, by a timeout error if its         *)
(* fragment does not finish.                                               *)
(***************************************************************************)
C10_EveryRequestIsAnswered ==
  \A r \in Reqs : (req[r].pc # "new") ~> (req[r].pc = "done")

(***************************************************************************)
(* C11.  When the stages from the address export was given form a chain of *)
(* N stages that ends in a null upstream_url, crawlPipeline fetches each   *)
(* address of the chain exactly once, most-downstream first, and returns   *)
(* the N documents root first.                                             *)
(***************************************************************************)
RECURSIVE ChainFrom(_, _)
ChainFrom(url, fuel) ==
  IF url = 0 \/ fuel = 0 THEN <<>>
  ELSE <<url>> \o ChainFrom(net[url].upstream_url, fuel - 1)

CrawlReturned == crawl.result # <<>>

C11_CrawlVisitsChainOnceRootFirst ==
  CrawlReturned =>
    LET N == Len(ChainFrom(1, MaxCrawl))
    IN  /\ crawl.fetched = ChainFrom(1, MaxCrawl)
        /\ \A i, j \in 1..N : i # j => crawl.fetched[i] # crawl.fetched[j]
        /\ Len(crawl.result) = N
        /\ \A i \in 1..N : crawl.result[i] = net[crawl.fetched[N + 1 - i]]

C11_Witness == crawl.pc = "exported" /\ Len(crawl.result) = 3

(***************************************************************************)
(* C12.  Once an address asked during the crawl is unreachable or answers  *)
(* with an empty or unparsable text, the export has failed (or is closing  *)
(* the connection on its way to failing), runExport has received no stage  *)
(* list (not even the stages collected before it) and no file has been     *)
(* written.                                                                *)
(***************************************************************************)
FetchFailures == {"unreachable", "empty", "text"}

C12_FailedFetchAbortsExport ==
  (\E a \in Addrs : net[a].reply \in FetchFailures) =>
    /\ \/ crawl.pc = "failed"
       \/ crawl.pc = "close" /\ crawl.got.t = "err"
    /\ crawl.result = <<>>
    /\ disk = <<>>

C12_Witness ==
  /\ crawl.pc = "failed"
  /\ Len(crawl.stages) = 2
  /\ net[crawl.fetched[3]].reply = "empty"

(***************************************************************************)
(* C13.  A reply that is not well-formed JSON, or whose document lacks a   *)
(* field its stage kind requires (or is no stage object at all), makes the *)
(* crawl fail: no such document is in the list handed to generateProject.  *)
(***************************************************************************)
WellFormedStage(doc) == doc.stage \in {"boot", "mod", "ui"} /\ doc.lacks = {}

C13_MalformedDocumentFailsCrawl ==
  \A i \in DOMAIN crawl.result : WellFormedStage(crawl.result[i])

(***************************************************************************)
(* What the written project holds: the emitted server.js.                   *)
(***************************************************************************)
EmittedServerJs ==
  LET I == {i \in DOMAIN disk : disk[i].path = "server.js"}
  IN  IF I = {} THEN NoServerJs ELSE disk[LastIndex(I)].serverJs

UniqueNames(names) ==
  \A i, j \in DOMAIN names : i # j => names[i] # names[j]

C15_ListingIsRoutedPlusSyntheticNoneHidden ==
  LET list == crawl.result
      m == FindStage(list, "mod")
      TOOLS == EmittedServerJs.TOOLS
  IN  (crawl.pc = "exported" /\ FindStage(list, "boot") # 0 /\ m # 0) =>
        /\ Len(TOOLS) = Len(list[m].pass_through_tools) + Len(list[m].synthetic_tools)
        /\ \A i \in DOMAIN TOOLS : TOOLS[i].name \notin Range(list[m].hidden_tools)

(***************************************************************************)
(* C16.  The written server lists the tools that the most-downstream stage *)
(* of the crawled chain (the stage export was pointed at) lists, also when *)
(* the chain has more than one mod stage.                                  *)
(***************************************************************************)
\* the names a live stage lists: a boot stage its tools, a mod stage its
\* routed names and its synthetic tools, any other stage what its upstream lists
RECURSIVE LiveListing(_, _)
LiveListing(list, i) ==
  IF i = 0 THEN <<>>
  ELSE CASE list[i].stage = "boot" -> NamesOf(list[i].tools)
         [] list[i].stage = "mod" ->
              ExposedNamesOf(list[i].pass_through_tools) \o NamesOf(list[i].synthetic_tools)
         [] OTHER -> LiveListing(list, i - 1)

C16_ArtifactListsWhatTheChainLists ==
  crawl.pc = "exported" =>
    NamesOf(EmittedServerJs.TOOLS) = LiveListing(crawl.result, Len(crawl.result))

ListHasMismatch(list) ==
  LET b == FindStage(list, "boot")
      m == FindStage(list, "mod")
  IN  /\ b # 0 /\ m # 0
      /\ \E i \in DOMAIN list[m].pass_through_tools :
           list[m].pass_through_tools[i].upstream_name \notin Range(NamesOf(list[b].tools))

RoutedToMissingTool(st, name) ==
  /\ HasMod(st) /\ ~IsSynthetic(st, name)
  /\ toolRouting(st, name) # NULL
  /\ ~IsBootTool(st, toolRouting(st, name))

Serving == crawl.pc = "serving"

LookupSearchChain ==
  <<BootDoc(0, <<LookupDoc>>, <<"a">>), ModDoc(0, <<"lookup">>, <<>>, <<SearchDoc>>)>>

HandlerResults == {"h:lookup", "saw:clean", "saw:dirty"}

C19_LookupSearchEndToEnd ==
  crawl.result = LookupSearchChain =>
    /\ crawl.pc \in {"exported", "serving"} =>
          NamesOf(EmittedServerJs.TOOLS) = <<"search">>
    /\ \A r \in Reqs :
         (Serving /\ Done(r) /\ req[r].name = "lookup") =>
            /\ IsToolError(req[r])
            /\ req[r].val = <<"Unknown tool">>
    /\ \A r \in Reqs :
         (Serving /\ Done(r) /\ req[r].name = "search") =>
            /\ req[r].step = "synthetic"
            /\ (req[r].outcome = "fulfilled" /\ req[r].subcalls = 2) =>
                  /\ Len(req[r].val) = 3
                  /\ req[r].val[1] \in HandlerResults
                  /\ req[r].val[2] \in HandlerResults
                  /\ req[r].val[3] = "orch"

C19_Witness ==
  /\ crawl.result = LookupSearchChain
  /\ Serving
  /\ Done(1)
  /\ req[1].name = "search"
  /\ req[1].val = <<"h:lookup", "h:lookup", "orch">>

(***************************************************************************)
(* C20.  In the emitted server, when MCP_API_KEY is set, a request other   *)
(* than the health probe that does not carry the header                    *)
(* "Authorization: Bearer <key>" with that key is answered 401 and no tool *)
(* listing, tool dispatch or resource read has run for it; the health      *)
(* probe is answered 200 without credentials.                              *)
(***************************************************************************)
IsHealthProbe == http.method = "GET" /\ http.url = "/health"

Authorized == http.authorization = "Bearer " \o http.MCP_API_KEY

C20_BearerKeyGuardsEveryRequest ==
  http.pc = "responded" =>
    /\ (http.MCP_API_KEY # "" /\ ~IsHealthProbe /\ ~Authorized) =>
          http.status = 401 /\ http.served = ""
    /\ IsHealthProbe => http.status = 200

(***************************************************************************)
(* C21.  With a ui stage in the exported list, list-resources returns      *)
(* exactly one resource per UI binding whose tool_name is a boot tool,     *)
(* read-resource of a binding's URI returns the html of that binding (also *)
(* when two bindings name the same tool), and read-resource of a URI with  *)
(* no binding fails.                                                       *)
(***************************************************************************)
UiBindings ==
  LET u == FindStage(crawl.result, "ui")
  IN  IF u = 0 THEN <<>> ELSE crawl.result[u].ui_resources

RootToolNames ==
  LET b == FindStage(crawl.result, "boot")
  IN  IF b = 0 THEN {} ELSE Range(NamesOf(crawl.result[b].tools))

C21_ResourcesServeTheirBindings ==
  LET ui == UiBindings
      root == {i \in DOMAIN ui : ui[i].tool_name \in RootToolNames}
      listed == ListResources(EmittedServerJs)
  IN  (crawl.pc = "exported" /\ FindStage(crawl.result, "ui") # 0) =>
        /\ listed.error = NULL
        /\ Len(listed.resources) = Cardinality(root)
        /\ \A i \in root :
              /\ \E k \in DOMAIN listed.resources :
                    listed.resources[k].uri = ui[i].resource_uri
              /\ ReadResource(EmittedServerJs, ui[i].resource_uri).text = ui[i].html
        /\ ReadResource(EmittedServerJs, "ui://none").error # NULL

(***************************************************************************)
(* C22.  With a ui stage in the exported list, each tool of the list-tools *)
(* response that has a UI binding carries that binding's resource URI in   *)
(* its _meta, and a tool without a binding carries no _meta.               *)
(***************************************************************************)
C22_ListedToolsCarryTheirResourceUri ==
  LET ui == UiBindings
      tools == ListTools(EmittedServerJs)
  IN  (crawl.pc = "exported" /\ FindStage(crawl.result, "ui") # 0) =>
        \A k \in DOMAIN tools :
          LET bound == {i \in DOMAIN ui : ui[i].tool_name = tools[k].name}
          IN  IF bound = {} THEN "_meta" \notin DOMAIN tools[k]
              ELSE /\ "_meta" \in DOMAIN tools[k]
                   /\ \E i \in bound : tools[k]._meta = ui[i].resource_uri

(***************************************************************************)
(* C23.  In `mcpknife export | mcpknife deploy`, an export that succeeded  *)
(* has written the absolute path of its output directory as a line on the  *)
(* pipe, and a deploy without positional directory that got past reading   *)
(* stdin has taken what it read there as its project directory.            *)
(***************************************************************************)
C23_ExportHandsItsDirectoryToDeploy ==
  /\ deploy.upstream = "exported" => Trim(deploy.stdin.data) = "/cwd/dirA"
  /\ (deploy.args.projectDir = NULL /\ deploy.projectDir # NULL) =>
        deploy.projectDir = PathResolve(Trim(deploy.stdin.data))

(***************************************************************************)
(* C24.  A step of provider.deploy has run only after the project          *)
(* directory was validated (it holds package.json and server.js) and,      *)
(* after that, preflight succeeded.  A run (other than a request for help, *)
(* which looks at nothing else) whose target is unknown, a run whose       *)
(* directory failed validation and a run whose preflight failed end in an  *)
(* error with no step of provider.deploy run.                              *)
(***************************************************************************)
FlySteps == {"Dockerfile", "launch", "secrets", "deploy"}

StepsRun == {deploy.log[i].step : i \in DOMAIN deploy.log}

FlyLog ==
  SelectIndices(deploy.log, {i \in DOMAIN deploy.log : deploy.log[i].step \in FlySteps})

FlyLogInOrder ==
  LET fly == FlyLog
      steps == [i \in DOMAIN fly |-> fly[i].step]
      order == <<"Dockerfile", "launch", "secrets", "deploy">>
      skip == <<"Dockerfile", "secrets", "deploy">>
  IN  /\ \/ steps = SubSeq(order, 1, Len(steps))
         \/ steps = SubSeq(skip, 1, Len(steps))
      /\ \A i \in 1..(Len(fly) - 1) : fly[i].ok
      /\ "deploy" \in StepsRun =>
            /\ Step("secrets", TRUE) \in Range(fly)
            /\ deploy.secrets[3] = "MCP_API_KEY=" \o deploy.apiKey

LaunchedUnlessFlyToml ==
  (deploy.pc = "launch" /\ Step("Dockerfile", TRUE) \in Range(deploy'.log)) =>
    (Step("launch", TRUE) \in Range(deploy'.log)
       \/ Step("launch", FALSE) \in Range(deploy'.log))
      <=> "fly.toml" \notin deploy.files

C25_FlyStepsInOrder == [][FlyLogInOrder' /\ LaunchedUnlessFlyToml]_vars

C25_Witness ==
  /\ deploy.pc = "failed"
  /\ [i \in DOMAIN FlyLog |-> FlyLog[i].step] = <<"Dockerfile", "secrets">>
  /\ ~FlyLog[2].ok

(***************************************************************************)
(* C26.  The argv the tool is spawned with is the injected flags followed  *)
(* by rawArgv unchanged; the injected part holds, in the order provider,   *)
(* model, apiKey, verbose, exactly the flags whose config value is neither *)
(* undefined nor false and which do not occur in rawArgv as --flag or      *)
(* --flag=value: the flag and the value's text, or the flag alone for      *)
(* verbose.                                                                *)
(***************************************************************************)
Spawned ==
  \/ wrapper.pc \in {"running", "signaled"}
  \/ wrapper.pc = "exited" /\ wrapper.error \in {NULL, "mcpx: failed to start"}

C26_InjectedFlagsThenRawArgv ==
  LET raw == wrapper.rawArgv
      argv == wrapper.argv
      n == Len(argv) - Len(raw)
      IsSet(key) ==
        wrapper.config[key] \notin {Undefined, JsonValue("boolean", "false")}
      Occurs(flag) ==
        \E i \in DOMAIN raw :
          raw[i] = Arg(flag) \/ (raw[i].eq /\ raw[i].name = flag)
      Part(key, flag, takesValue) ==
        IF ~IsSet(key) \/ Occurs(flag) THEN <<>>
        ELSE IF takesValue THEN <<Arg(flag), Arg(wrapper.config[key].text)>>
        ELSE <<Arg(flag)>>
  IN  Spawned =>
        /\ n >= 0
        /\ SubSeq(argv, n + 1, Len(argv)) = raw
        /\ SubSeq(argv, 1, n) =
              Part("provider", "--provider", TRUE) \o Part("model", "--model", TRUE)
                \o Part("apiKey", "--api-key", TRUE) \o Part("verbose", "--verbose", FALSE)

C26_Witness ==
  /\ wrapper.pc = "running"
  /\ wrapper.argv = <<Arg("--api-key"), Arg("sk-user"),
                      ArgEq("--provider", "openai"), Arg("--verbose")>>

(***************************************************************************)
(* C27.  When the API key is given by the environment and not on the       *)
(* command line, the spawned tool uses the environment's value, whatever   *)
(* the config files give.                                                  *)
(***************************************************************************)
C27_EnvironmentBeatsConfigFiles ==
  (/\ Spawned
   /\ wrapper.env.API_KEY # NULL
   /\ ~hasFlag(wrapper.rawArgv, "--api-key")) =>
    EffectiveApiKey(wrapper.argv, wrapper.env) = wrapper.env.API_KEY

(***************************************************************************)
(* C28.  loadConfig gives, for every field, the project file's value when  *)
(* the project file defines the field and otherwise the user file's value; *)
(* a file that is missing, blank, or holds null or a non-object value      *)
(* defines no field and raises no error; a file with malformed JSON makes  *)
(* the load fail with an error that names that file.                       *)
(***************************************************************************)
Defines(file, key) == file.kind = "object" /\ file.object[key] # Undefined

C28_ProjectOverUserFieldByField ==
  LET user == wrapper.userFile
      project == wrapper.projectFile
  IN  wrapper.pc # "start" =>
        IF user.kind = "malformed"
          THEN /\ wrapper.pc = "exited"
               /\ wrapper.error = "mcpknife: invalid JSON in /home/.mcpkniferc"
        ELSE IF project.kind = "malformed"
          THEN /\ wrapper.pc = "exited"
               /\ wrapper.error = "mcpknife: invalid JSON in /cwd/.mcpkniferc"
        ELSE /\ wrapper.error \notin {"mcpknife: invalid JSON in /home/.mcpkniferc",
                                      "mcpknife: invalid JSON in /cwd/.mcpkniferc"}
             /\ \A key \in ConfigKeys :
                   wrapper.config[key] =
                     IF Defines(project, key) THEN project.object[key]
                     ELSE IF Defines(user, key) THEN user.object[key]
                     ELSE Undefined

C28_Witness ==
  /\ wrapper.pc = "running"
  /\ Defines(wrapper.userFile, "provider")
  /\ Defines(wrapper.projectFile, "provider")
  /\ wrapper.userFile.object.provider # wrapper.projectFile.object.provider
  /\ Defines(wrapper.userFile, "apiKey")
  /\ wrapper.config.apiKey = JsonString("sk-user")

(***************************************************************************)
(* C29.  Once the child has ended, the wrapper has ended with the child's  *)
(* status: with the child's exit code when the child exited, and by the    *)
(* same signal when the child was ended by a signal.                       *)
(***************************************************************************)
C29_WrapperEndsWithChildStatus ==
  LET status == wrapper.child.status
  IN  /\ status.code # NULL =>
            wrapper.exit = [code |-> status.code, signal |-> NULL]
      /\ status.signal # NULL =>
            wrapper.pc = "signaled" /\ wrapper.exit.signal = status.signal

ValueFlags(pc) ==
  IF pc = "export" THEN {"--output-dir"}
  ELSE {"--target", "--name", "--region", "--env", "--api-key"}

\* the flag at position i is followed by its value
TakesNext(argv, i, pc) ==
  /\ ~argv[i].eq
  /\ argv[i].name \in ValueFlags(pc)
  /\ i + 1 <= Len(argv)

\* the positions read as an argument of their own, not as a flag's value
RECURSIVE Heads(_, _, _)
Heads(argv, i, pc) ==
  IF i > Len(argv) THEN {}
  ELSE {i} \cup Heads(argv, IF TakesNext(argv, i, pc) THEN i + 2 ELSE i + 1, pc)

\* argv with `--flag v` at position i written `--flag=v`
Joined(argv, i) ==
  [k \in 1..(Len(argv) - 1) |->
     IF k < i THEN argv[k]
     ELSE IF k = i THEN ArgEq(argv[i].name, Text(argv[i + 1]))
     ELSE argv[k + 1]]

ParseOf(pc, argv) == IF pc = "export" THEN parseExportArgs(argv) ELSE parseDeployArgs(argv)

C31_FlagFormsAgree ==
  parser.pc \in {"export", "deploy"} =>
    \A i \in Heads(parser.argv, 1, parser.pc) :
      TakesNext(parser.argv, i, parser.pc) =>
        ParseOf(parser.pc, Joined(parser.argv, i)) = parser.result

Positionals(argv) == {i \in Heads(argv, 1, "deploy") : ~StartsWithDash(argv[i])}

C31_FirstPositionalIsProjectDir ==
  parser.pc = "deploy" =>
    LET ps == Positionals(parser.argv)
    IN  parser.result.projectDir =
          IF ps = {} THEN NULL
          ELSE Text(parser.argv[CHOOSE i \in ps : \A j \in ps : i <= j])

\* the pairs given to --env, in either form, that have a key
EnvPairs(argv) ==
  LET hs == Heads(argv, 1, "deploy")
      at(i) == IF argv[i].eq THEN argv[i].value ELSE Text(argv[i + 1])
  IN  {SplitPair(at(i)) : i \in {h \in hs : /\ argv[h].name = "--env"
                                            /\ argv[h].eq \/ h + 1 <= Len(argv)}}

C31_EnvPairsAccumulate ==
  parser.pc = "deploy" =>
    DOMAIN parser.result.env =
      {a.name : a \in {b \in EnvPairs(parser.argv) : b.eq /\ b.name /= ""}}

C31_ParsersReadBothFlagForms ==
  /\ C31_FlagFormsAgree
  /\ C31_FirstPositionalIsProjectDir
  /\ C31_EnvPairsAccumulate

\* ---------------------------------------------------------------------------
\* C32: during a crawl at most one stage connection is open, and only while
\* fetchMetadata is between its connect and its close: when the next address
\* is about to be contacted, and when crawlPipeline has returned or thrown
\* (also after a failed call or an unparsable reply), no connection is open.
C32_OneConnectionClosedBeforeNext ==
  /\ Cardinality(crawl.open) <= 1
  /\ crawl.open = IF crawl.pc = "close" THEN {crawl.currentUrl} ELSE {}

\* the third address answered with text that does not parse; its connection and
\* those of the two stages before it are closed
C32_Witness ==
  /\ crawl.pc = "failed"
  /\ crawl.error = "SyntaxError"
  /\ Len(crawl.fetched) = 3
  /\ crawl.open = {}

\* ---------------------------------------------------------------------------
\* C33: once the crawl has been led back to an address it fetched before, it
\* goes on fetching: it has another address to fetch, it has not returned a
\* list and it has raised no error, however many fetches were made.
Revisited ==
  \E i, j \in 1..Len(crawl.fetched) : i < j /\ crawl.fetched[i] = crawl.fetched[j]

C33_CyclicChainIsCrawledForever ==
  Revisited =>
    /\ crawl.pc \in {"crawl", "close"}
    /\ crawl.pc = "close" => crawl.got.t = "ok" /\ crawl.got.v.upstream_url # 0
    /\ crawl.pc = "crawl" => crawl.currentUrl # 0
    /\ crawl.result = <<>>
    /\ crawl.error = NULL

\* the chain 1 -> 2 -> 1 after four fetches
C33_Witness ==
  /\ Len(crawl.fetched) >= 4
  /\ crawl.fetched[1] = crawl.fetched[3]
  /\ crawl.fetched[2] = crawl.fetched[4]
  /\ crawl.fetched[1] # crawl.fetched[2]

\* ---------------------------------------------------------------------------
\* C34: with a mod stage in the exported chain no call takes the direct step; a
\* call of a root tool's own name reaches that tool's handler only if a routing
\* entry exposes the name; a root tool the mod stage neither routes nor hides
\* (and whose name no synthetic tool bears) is not in the listing, a call of it
\* gets the unknown-tool payload, and generateProject does not fail over it.
DroppedNames(list) ==
  LET b == FindStage(list, "boot")
      m == FindStage(list, "mod")
  IN  IF b = 0 \/ m = 0 THEN {}
      ELSE {n \in Range(NamesOf(list[b].tools)) :
              /\ n \notin Range(ExposedNamesOf(list[m].pass_through_tools))
              /\ n \notin Range(list[m].hidden_tools)
              /\ n \notin Range(NamesOf(list[m].synthetic_tools))}

C34_DirectStepUnreachable ==
  (Serving /\ HasMod(stages)) => \A r \in Reqs : req[r].step # "direct"

C34_OwnNameNeedsRoutingEntry ==
  \A r \in Reqs :
    (/\ Serving /\ HasMod(stages)
     /\ req[r].pc = "handler"
     /\ req[r].step # "synthetic"
     /\ req[r].target = req[r].name) => IsRouted(stages, req[r].name)

C34_DroppedToolIsUnknown ==
  \A n \in DroppedNames(crawl.result) :
    /\ crawl.pc # "failed"
    /\ crawl.pc \in {"exported", "serving"} => n \notin Range(NamesOf(EmittedServerJs.TOOLS))
    /\ \A r \in Reqs :
         (Serving /\ Done(r) /\ req[r].name = n) =>
            /\ IsToolError(req[r])
            /\ req[r].val = <<"Unknown tool">>

C34_UnroutedRootToolsAreDropped ==
  /\ C34_DirectStepUnreachable
  /\ C34_OwnNameNeedsRoutingEntry
  /\ C34_DroppedToolIsUnknown

\* ---------------------------------------------------------------------------
\* C35: a routed call whose input or output transform has thrown is answered
\* with the tool-error payload: after a throwing input transform the boot tool
\* is not called, and after either the call does not end as a plain success.
TransformThrew(q) == Len(q.logged) > 0
InputTransformThrew(q) ==
  \E i \in 1..Len(q.logged) : q.logged[i] = "Input transform error"

C35_ThrowingTransformIsToolError ==
  \A r \in Reqs :
    /\ InputTransformThrew(req[r]) =>
         req[r].pc \notin {"boot", "handler", "fetching", "spinning", "hung", "outT"}
    /\ (TransformThrew(req[r]) /\ Done(r)) => IsToolError(req[r])

\* ---------------------------------------------------------------------------
\* C36: after generateProject on a stage list (names unique within the root
\* tools, the routing entries and the synthetic tools, URIs unique within the
\* UI bindings) the project directory has one file per root tool, per routing
\* entry with a transform, per synthetic tool and per UI binding; these are the
\* files the tables of server.js are loaded from; and each entry's file holds
\* that entry's content.
\* the files of the project directory that are in directory dir
PathsUnder(dir) ==
  {disk[j].path : j \in DOMAIN disk} \cap
    {dir \o "/" \o n \o ext : n \in {"lookup", "fetcher", "search", "ghost"},
                              ext \in {".js", ".json", ".html"}}

\* the entries generateProject writes a file for: directory, file name, content
ProjectEntries(list) ==
  LET b == FindStage(list, "boot")
      m == FindStage(list, "mod")
      u == FindStage(list, "ui")
      tools == IF b # 0 THEN list[b].tools ELSE <<>>
      mods == IF m # 0 THEN ModifiedTools(list[m].pass_through_tools) ELSE <<>>
      syn == IF m # 0 THEN list[m].synthetic_tools ELSE <<>>
      ui == IF u # 0 THEN list[u].ui_resources ELSE <<>>
  IN  [handlers |-> [i \in DOMAIN tools |->
                       [path |-> "handlers/" \o tools[i].name \o ".js",
                        text |-> tools[i].handler_code]],
       transforms |-> [i \in DOMAIN mods |->
                         [path |-> "transforms/" \o mods[i].exposed_name \o ".json",
                          text |-> TransformJson(mods[i])]],
       orchestrations |-> [i \in DOMAIN syn |->
                             [path |-> "orchestrations/" \o syn[i].name \o ".js",
                              text |-> syn[i].orchestration_code]],
       ui |-> [i \in DOMAIN ui |->
                 [path |-> "ui/" \o ui[i].tool_name \o ".html", text |-> ui[i].html]]]

\* the files server.js reads at start-up, by directory
FilesRead(js) ==
  [handlers |-> {"handlers/" \o n \o ".js" : n \in Range(js.bootHandlers.entries)},
   transforms |-> {"transforms/" \o n \o ".json" : n \in Range(js.transforms.entries)},
   orchestrations |->
     {"orchestrations/" \o n \o ".js" : n \in Range(js.orchestrations.entries)},
   ui |-> {"ui/" \o e[2] \o ".html" : e \in Range(js.uiResources.entries)}]

EntriesAreDistinct(list) ==
  LET b == FindStage(list, "boot")
      m == FindStage(list, "mod")
      u == FindStage(list, "ui")
  IN  /\ b # 0 => UniqueNames(NamesOf(list[b].tools))
      /\ m # 0 => /\ UniqueNames(ExposedNamesOf(list[m].pass_through_tools))
                  /\ UniqueNames(NamesOf(list[m].synthetic_tools))
      /\ u # 0 => UniqueNames([i \in DOMAIN list[u].ui_resources |->
                                 list[u].ui_resources[i].resource_uri])

C36_OneFilePerEntryAsRead ==
  (crawl.pc = "exported" /\ EntriesAreDistinct(crawl.result)) =>
    LET entries == ProjectEntries(crawl.result)
        read == FilesRead(EmittedServerJs)
    IN  \A dir \in {"handlers", "transforms", "orchestrations", "ui"} :
          /\ Cardinality(PathsUnder(dir)) = Len(entries[dir])
          /\ PathsUnder(dir) = read[dir]
          /\ \A i \in DOMAIN entries[dir] : FileOnDisk(entries[dir][i].path) = entries[dir][i].text

\* ---------------------------------------------------------------------------
\* C37: however the stream is cut into chunks, readUrlFromStdin resolves with
\* the first whole line of the stream that starts with http:// or https://
\* (trimmed), never with a part of it; it rejects when the stream has ended
\* without such a line, and when the timer elapses first.
UrlLines(text) ==
  LET lines == SplitLines(text)
  IN  {i \in DOMAIN lines : StartsWithScheme(TrimText(lines[i]))}

FirstUrlLine(text) ==
  LET lines == SplitLines(text)
      urls == UrlLines(text)
  IN  TrimText(lines[CHOOSE i \in urls : \A j \in urls : i <= j])

C37_ResolvesFirstWholeUrlLine ==
  /\ reader.pc = "resolved" =>
       /\ UrlLines(reader.input) # {}
       /\ reader.url = FirstUrlLine(reader.input)
  /\ (reader.pc = "rejected" /\ reader.error = "Invalid upstream URL on stdin") =>
       /\ reader.sent = Len(reader.input)
       /\ UrlLines(reader.input) = {}
  /\ (reader.pc = "reading" /\ reader.sent = Len(reader.input)) =>
       UrlLines(reader.input) = {}

\* ---------------------------------------------------------------------------
\* C38: whatever stages are present and whichever lists are empty, a call reads
\* no table or function that the emitted module does not declare: with a mod
\* stage every call reads orchestrations and toolRouting, a routed call reads
\* transforms, and a call that asks for a boot tool reads callBootTool and
\* bootHandlers.
C38_EveryTableReadIsDeclared ==
  \A r \in Reqs :
    /\ (HasMod(stages) /\ req[r].pc # "new") => orchestrationsDeclared(stages)
    /\ (HasMod(stages) /\ req[r].pc # "new" /\ toolRouting(stages, req[r].name) # NULL
          /\ ~IsSynthetic(stages, req[r].name)) => transformsDeclared(stages)
    /\ req[r].pc = "boot" => bootHandlersDeclared(stages)

\* ---------------------------------------------------------------------------
\* C39: in the written project the listing and the dispatch agree: a call of a
\* name in TOOLS takes the synthetic, the routed or the direct step, and a call
\* of a name that is not in TOOLS takes neither the synthetic nor the routed
\* step, nor the direct step to a handler of that name.
CallableNames == {"lookup", "fetcher", "search", "ghost", "other"}

C39_ListingAndDispatchAgree ==
  crawl.pc = "exported" =>
    LET listed == Range(NamesOf(EmittedServerJs.TOOLS))
        st == LoadedTables(crawl.result)
    IN  \A n \in CallableNames :
          IF n \in listed
            THEN DispatchStep(st, n) \in {"synthetic", "routed", "direct"}
            ELSE /\ DispatchStep(st, n) \notin {"synthetic", "routed"}
                 /\ DispatchStep(st, n) = "direct" => ~IsBootTool(st, n)

\* ---------------------------------------------------------------------------
\* C40: buildArgv applied to its own result changes nothing: for the config a
\* child was spawned with, for the configs whose values read like flags, and for every
\* rawArgv, buildArgv(config, buildArgv(config, rawArgv)) is
\* buildArgv(config, rawArgv).
FlagLikeConfigs ==
  {[EmptyConfig EXCEPT !.provider = JsonString("--model"), !.model = JsonString("m1")],
   [EmptyConfig EXCEPT !.provider = JsonString("--verbose"),
                       !.verbose = JsonValue("boolean", "true")],
   [EmptyConfig EXCEPT !.apiKey = JsonString("--provider"),
                       !.model = JsonValue("number", "5")]}

C40_BuildArgvIsIdempotent ==
  wrapper.pc # "idle" =>
    \A config \in FlagLikeConfigs \cup (IF Spawned THEN {wrapper.config} ELSE {}) :
      buildArgv(config, buildArgv(config, wrapper.rawArgv))
        = buildArgv(config, wrapper.rawArgv)

\* a run in which two flags were injected before the raw arguments
C40_Witness ==
  /\ Spawned
  /\ Len(wrapper.rawArgv) = 2
  /\ Len(wrapper.argv) = 5
  /\ buildArgv(wrapper.config, wrapper.argv) = wrapper.argv

====
